---- MODULE Spec2Model ----
(***************************************************************************)
(* TinTown impact bridge: the real-time shot/impact correlator             *)
(* (timing_calibration.py), the envelope hit detector (detector.py), the   *)
(* onset impact detector (enhanced_impact_detection.py) and the startup    *)
(* calibration of FixedBridge (scripts/fixed_bridge.py).                   *)
(*                                                                         *)
(* Each object of the program is one record-valued variable whose fields   *)
(* carry the names of the object's attributes.  Every method is an         *)
(* operator from the object's state (and the call's arguments) to the      *)
(* state after the call, so that a caller (FixedBridge) composes them the  *)
(* way the code does.                                                      *)
(*                                                                         *)
(* Units.  datetime values are counted in ticks of 1/TicksPerMs ms, so     *)
(* that int(total_seconds()*1000) really truncates.  Monotonic sensor      *)
(* timestamps are nanoseconds, as in the code.  Amplitudes are integers    *)
(* (hundredths of the unit the tests use).  A confidence is the exact      *)
(* fraction num/den of the float the code computes.                        *)
(***************************************************************************)
EXTENDS Integers, Sequences, FiniteSets, TLC

VARIABLES
    rtc,    \* RealTimeTimingCalibrator
    hd,     \* HitDetector
    eid,    \* EnhancedImpactDetector
    sd,     \* ShotDetector
    fb,     \* FixedBridge (startup calibration and notification routing)
    mpd,    \* MultiPlateDetector
    par,    \* a call of one of the frame parsers: its input and its result
    tc      \* TimingCorrelator

vars == <<rtc, hd, eid, sd, fb, mpd, par, tc>>

Abs(x) == IF x < 0 THEN -x ELSE x

Max2(a, b) == IF a >= b THEN a ELSE b

RECURSIVE SumSeq(_)
SumSeq(s) == IF s = <<>> THEN 0 ELSE Head(s) + SumSeq(Tail(s))

RECURSIVE MaxSeq(_)
MaxSeq(s) == IF Len(s) = 1 THEN s[1] ELSE Max2(Head(s), MaxSeq(Tail(s)))

LastN(s, n) == IF Len(s) <= n THEN s ELSE SubSeq(s, Len(s) - n + 1, Len(s))

(***************************************************************************)
(*                      RealTimeTimingCalibrator                           *)
(***************************************************************************)

\* ---- bounds of the model ----
MaxShots == 3           \* add_shot_event calls in one behaviour
MaxImpacts == 3         \* add_impact_event calls that pass the magnitude filter

\* ---- program constants ----
TicksPerMs == 2
DefaultExpectedDelayMs == 526
DefaultCorrelationWindowMs == 1520
DefaultDelayToleranceMs == 663
DefaultMinimumMagnitude == 150
DefaultSampleCount == 6
LearningRateNum == 1            \* learning_rate = 0.1 = LearningRateNum / LearningRateDen
LearningRateDen == 10
max_buffer_size == 50
max_learning_samples == 20
MinLearningSamples == 3
LearningDeadbandMs == 5

\* The calibration TimingCalibration() builds without a file.
DefaultCalibration ==
    [expected_delay_ms |-> DefaultExpectedDelayMs,
     correlation_window_ms |-> DefaultCorrelationWindowMs,
     delay_tolerance_ms |-> DefaultDelayToleranceMs,
     minimum_magnitude |-> DefaultMinimumMagnitude,
     learning_rate |-> [num |-> LearningRateNum, den |-> LearningRateDen],
     sample_count |-> DefaultSampleCount]

\* A calibration file as from_file reads it: the values of the worked example
\* (expected 100 ms, window 1000 ms, tolerance 50 ms).
ExampleCalibration ==
    [expected_delay_ms |-> 100,
     correlation_window_ms |-> 1000,
     delay_tolerance_ms |-> 50,
     minimum_magnitude |-> DefaultMinimumMagnitude,
     learning_rate |-> [num |-> LearningRateNum, den |-> LearningRateDen],
     sample_count |-> DefaultSampleCount]

\* TimingCalibration.from_file: the record of the file, or the defaults.
LoadableCalibrations == {DefaultCalibration, ExampleCalibration}

\* ---- the calibration file ----

\* The fields of TimingCalibration, the keys asdict() writes.
CalibrationKeys ==
    {"expected_delay_ms", "correlation_window_ms", "delay_tolerance_ms",
     "minimum_magnitude", "learning_rate", "sample_count"}

\* What open() and json.load() can meet at the path of the file.  A file of
\* kind "object" holds a JSON object whose 'timing_calibration' is the object
\* section; "no_section" is a JSON object without that key.
RaisingFileKinds ==
    {"absent", "unreadable", "directory", "not_utf8", "malformed",
     "list", "null", "section_scalar", "section_null"}

\* dict.get(key, default)
Get(section, key, default) == IF key \in DOMAIN section THEN section[key] ELSE default

Returned(value) == [raised |-> FALSE, exception |-> "none", value |-> value]
Raised(exception) == [raised |-> TRUE, exception |-> exception, value |-> <<>>]

\* The exception open(), json.load() or .get() raises on the file, "none"
\* when the section is read.
LoadException(file) ==
    CASE file.kind = "absent" -> "FileNotFoundError"
      [] file.kind = "unreadable" -> "PermissionError"
      [] file.kind = "directory" -> "IsADirectoryError"
      [] file.kind = "not_utf8" -> "UnicodeDecodeError"
      [] file.kind = "malformed" -> "JSONDecodeError"
      [] file.kind \in {"list", "null", "section_scalar", "section_null"} -> "AttributeError"
      [] OTHER -> "none"

\* The exceptions of the except clause of from_file (line 43).
CaughtExceptions == {"FileNotFoundError", "JSONDecodeError", "KeyError"}

\* TimingCalibration.from_file
FromFile(file) ==
    LET exception == LoadException(file)
        calibration_data == IF file.kind = "object" THEN file.section ELSE <<>>
    IN  IF exception \in CaughtExceptions THEN Returned(DefaultCalibration)
        ELSE IF exception # "none" THEN Raised(exception)
        ELSE Returned(
            [expected_delay_ms |->
                 Get(calibration_data, "expected_delay_ms", DefaultExpectedDelayMs),
             correlation_window_ms |->
                 Get(calibration_data, "correlation_window_ms", DefaultCorrelationWindowMs),
             delay_tolerance_ms |->
                 Get(calibration_data, "delay_tolerance_ms", DefaultDelayToleranceMs),
             minimum_magnitude |->
                 Get(calibration_data, "minimum_magnitude", DefaultMinimumMagnitude),
             learning_rate |-> DefaultCalibration.learning_rate,
             sample_count |-> Get(calibration_data, "sample_count", DefaultSampleCount)])

\* The file save_to_file leaves: 'timing_calibration' holds asdict(self).
WrittenFile(cal) == [kind |-> "object", section |-> [k \in CalibrationKeys |-> cal[k]]]

\* Calibrations to save: the default and another value of every field.
SavableCalibrations ==
    [expected_delay_ms : {DefaultExpectedDelayMs, 100},
     correlation_window_ms : {DefaultCorrelationWindowMs, 1000},
     delay_tolerance_ms : {DefaultDelayToleranceMs, 50},
     minimum_magnitude : {DefaultMinimumMagnitude, 100},
     learning_rate : {DefaultCalibration.learning_rate, [num |-> 1, den |-> 5]},
     sample_count : {DefaultSampleCount, 0}]

\* The files from_file is given: every kind that cannot be read as a
\* section, and sections holding all, some or none of the keys.
CalibrationFiles ==
    {[kind |-> kind, section |-> <<>>] : kind \in RaisingFileKinds \cup {"no_section"}}
    \cup {[kind |-> "object", section |-> [k \in ks |-> WrittenFile(cal).section[k]]] :
             cal \in SavableCalibrations,
             ks \in {CalibrationKeys, CalibrationKeys \ {"learning_rate"},
                     {"expected_delay_ms"}, {}}}

\* Inputs: event timestamps (ticks) and impact magnitudes.
Times == {0, 40, 240, 301, 4000}
Magnitudes == {100, 200}

\* RealTimeTimingCalibrator.__init__
InitCalibrator(cal) ==
    [calibration |-> cal,
     pending_shots |-> <<>>,
     pending_impacts |-> <<>>,
     correlated_pairs |-> <<>>,
     recent_delays |-> <<>>,
     tasks |-> 0,           \* _correlate_events tasks created and not yet run
     clock |-> 0,           \* datetime.now(): the latest timestamp handed in
     shot_clock |-> 0,      \* the latest timestamp of each of the two streams
     impact_clock |-> 0,
     first |-> "none",      \* history: the kind of the first event handed in
     n_shots |-> 0,         \* events built so far (their identity)
     n_impacts |-> 0,
     appended |-> <<>>,     \* history: every pair ever appended to correlated_pairs
     suspended |-> <<>>,    \* frames of the _correlate_events tasks suspended at an await
     last_pass |-> [ran |-> FALSE, raised |-> FALSE, new_pairs |-> <<>>,
                    decisions |-> <<>>]]    \* history: what the latest pass did

\* add_shot_event without the pruning of lines 122-123.
AddShotEventNoPrune(c, timestamp, shot_number) ==
    LET shot == [id |-> c.n_shots + 1, timestamp |-> timestamp, shot_number |-> shot_number]
    IN  [c EXCEPT !.pending_shots = Append(c.pending_shots, shot),
                  !.n_shots = c.n_shots + 1,
                  !.clock = Max2(c.clock, timestamp),
                  !.shot_clock = timestamp,
                  !.first = IF @ = "none" THEN "shot" ELSE @,
                  !.tasks = c.tasks + 1]

\* add_shot_event: append, prune shots older than the window, schedule a pass.
AddShotEvent(c, timestamp, shot_number) ==
    LET shot == [id |-> c.n_shots + 1, timestamp |-> timestamp, shot_number |-> shot_number]
        cutoff_time == timestamp - c.calibration.correlation_window_ms * TicksPerMs
    IN  [c EXCEPT !.pending_shots =
                      SelectSeq(Append(c.pending_shots, shot),
                                LAMBDA s : s.timestamp >= cutoff_time),
                  !.n_shots = c.n_shots + 1,
                  !.clock = Max2(c.clock, timestamp),
                  !.shot_clock = timestamp,
                  !.first = IF @ = "none" THEN "shot" ELSE @,
                  !.tasks = c.tasks + 1]

\* add_impact_event without the create_task of line 148.
AddImpactEventNoTask(c, timestamp, magnitude) ==
    IF magnitude < c.calibration.minimum_magnitude
    THEN c
    ELSE
    LET impact == [id |-> c.n_impacts + 1, timestamp |-> timestamp, magnitude |-> magnitude]
        cutoff_time == timestamp - c.calibration.correlation_window_ms * TicksPerMs
    IN  [c EXCEPT !.pending_impacts =
                      SelectSeq(Append(c.pending_impacts, impact),
                                LAMBDA i : i.timestamp >= cutoff_time),
                  !.n_impacts = c.n_impacts + 1,
                  !.clock = Max2(c.clock, timestamp),
                  !.impact_clock = timestamp,
                  !.first = IF @ = "none" THEN "impact" ELSE @]

\* add_impact_event: weak impacts are skipped; otherwise as add_shot_event.
AddImpactEvent(c, timestamp, magnitude) ==
    IF magnitude < c.calibration.minimum_magnitude
    THEN c
    ELSE
    LET impact == [id |-> c.n_impacts + 1, timestamp |-> timestamp, magnitude |-> magnitude]
        cutoff_time == timestamp - c.calibration.correlation_window_ms * TicksPerMs
    IN  [c EXCEPT !.pending_impacts =
                      SelectSeq(Append(c.pending_impacts, impact),
                                LAMBDA i : i.timestamp >= cutoff_time),
                  !.n_impacts = c.n_impacts + 1,
                  !.clock = Max2(c.clock, timestamp),
                  !.impact_clock = timestamp,
                  !.first = IF @ = "none" THEN "impact" ELSE @,
                  !.tasks = c.tasks + 1]

\* _calculate_confidence with the comparison of line 226 turned round.
CalculateConfidenceInverted(cal, delay_ms) ==
    LET delay_difference == Abs(delay_ms - cal.expected_delay_ms)
        max_difference == cal.delay_tolerance_ms
    IN  IF delay_difference = 0
        THEN [num |-> 1, den |-> 1]
        ELSE IF delay_difference >= max_difference
        THEN [num |-> 2 * max_difference - delay_difference, den |-> 2 * max_difference]
        ELSE [num |-> Max2(0, 3 * max_difference - 2 * delay_difference),
              den |-> 2 * max_difference]

\* _calculate_confidence without the max(0.0, ...) of line 229.
CalculateConfidenceNoFloor(cal, delay_ms) ==
    LET delay_difference == Abs(delay_ms - cal.expected_delay_ms)
        max_difference == cal.delay_tolerance_ms
    IN  IF delay_difference = 0
        THEN [num |-> 1, den |-> 1]
        ELSE IF delay_difference <= max_difference
        THEN [num |-> 2 * max_difference - delay_difference, den |-> 2 * max_difference]
        ELSE [num |-> 3 * max_difference - 2 * delay_difference,
              den |-> 2 * max_difference]

\* _calculate_confidence, as the exact fraction num/den.
CalculateConfidence(cal, delay_ms) ==
    LET delay_difference == Abs(delay_ms - cal.expected_delay_ms)
        max_difference == cal.delay_tolerance_ms
    IN  IF delay_difference = 0
        THEN [num |-> 1, den |-> 1]
        ELSE IF delay_difference <= max_difference
        THEN [num |-> 2 * max_difference - delay_difference, den |-> 2 * max_difference]
        ELSE [num |-> Max2(0, 3 * max_difference - 2 * delay_difference),
              den |-> 2 * max_difference]

\* is_valid without the tolerance test of line 89.
IsValidNoTolerance(pair, cal) ==
    /\ 0 <= pair.delay_ms
    /\ pair.delay_ms <= cal.correlation_window_ms
    /\ pair.impact.magnitude >= cal.minimum_magnitude

\* CorrelatedPair.is_valid
IsValid(pair, cal) ==
    /\ 0 <= pair.delay_ms
    /\ pair.delay_ms <= cal.correlation_window_ms
    /\ pair.impact.magnitude >= cal.minimum_magnitude
    /\ Abs(pair.delay_ms - cal.expected_delay_ms) <= cal.delay_tolerance_ms

PairRetentionMs == 600000       \* _cleanup_old_data keeps pairs of the last 10 minutes

\* Dataclass equality of two ShotEvents: field by field, never by identity.
ShotEq(a, b) == a.timestamp = b.timestamp /\ a.shot_number = b.shot_number

\* list.remove(x): drops the first element equal to x; ValueError (caught) if none.
RECURSIVE ListRemove(_, _)
ListRemove(s, x) ==
    IF s = <<>> THEN <<>>
    ELSE IF ShotEq(Head(s), x) THEN Tail(s)
    ELSE <<Head(s)>> \o ListRemove(Tail(s), x)

\* for i in sorted(used_impacts, reverse=True): del pending_impacts[i]
DeleteIndices(s, used) ==
    LET keep == {i \in 1..Len(s) : i \notin used}
        F[i \in 0..Len(s)] ==
            IF i = 0 THEN <<>>
            ELSE IF i \in keep THEN Append(F[i - 1], s[i]) ELSE F[i - 1]
    IN  F[Len(s)]

\* The inner loop of _correlate_events (lines 163-179) from impact index i on:
\* the unused impact inside the shot's window that is strictly closer to the
\* expected delay than every one before it.  best.index = 0 is best_index = -1
\* and best.difference = -1 is float('inf').  Differences are in ticks.
RECURSIVE BestImpactLatest(_, _, _, _, _, _)
\* The inner loop with "<=" at line 176: on a tie the impact queued last.
BestImpactLatest(impacts, shot, cal, used_impacts, i, best) ==
    IF i > Len(impacts) THEN best
    ELSE
    LET impact == impacts[i]
        window_end == shot.timestamp + cal.correlation_window_ms * TicksPerMs
        delay_ticks == impact.timestamp - shot.timestamp
        delay_difference == Abs(delay_ticks - cal.expected_delay_ms * TicksPerMs)
    IN  IF i \in used_impacts
        THEN BestImpactLatest(impacts, shot, cal, used_impacts, i + 1, best)
        ELSE IF impact.timestamp < shot.timestamp \/ impact.timestamp > window_end
        THEN BestImpactLatest(impacts, shot, cal, used_impacts, i + 1, best)
        ELSE IF best.difference = -1 \/ delay_difference <= best.difference
        THEN BestImpactLatest(impacts, shot, cal, used_impacts, i + 1,
                              [index |-> i, difference |-> delay_difference])
        ELSE BestImpactLatest(impacts, shot, cal, used_impacts, i + 1, best)

RECURSIVE BestImpact(_, _, _, _, _, _)
BestImpact(impacts, shot, cal, used_impacts, i, best) ==
    IF i > Len(impacts) THEN best
    ELSE
    LET impact == impacts[i]
        window_end == shot.timestamp + cal.correlation_window_ms * TicksPerMs
        delay_ticks == impact.timestamp - shot.timestamp
        delay_difference == Abs(delay_ticks - cal.expected_delay_ms * TicksPerMs)
    IN  IF i \in used_impacts
        THEN BestImpact(impacts, shot, cal, used_impacts, i + 1, best)
        ELSE IF impact.timestamp < shot.timestamp \/ impact.timestamp > window_end
        THEN BestImpact(impacts, shot, cal, used_impacts, i + 1, best)
        ELSE IF best.difference = -1 \/ delay_difference < best.difference
        THEN BestImpact(impacts, shot, cal, used_impacts, i + 1,
                        [index |-> i, difference |-> delay_difference])
        ELSE BestImpact(impacts, shot, cal, used_impacts, i + 1, best)

\* TimingCalibration.save_to_file: the write succeeds or raises OSError.
SaveToFile(st, writable) == [st EXCEPT !.raised = ~writable]

\* The learning step without the minimum of three samples of line 240.
UpdateCalibrationAlways(st, actual_delay, writable) ==
    LET recent == LastN(Append(st.recent_delays, actual_delay), max_learning_samples)
        n == Len(recent)
        old_expected == st.calibration.expected_delay_ms
        lr == st.calibration.learning_rate
        new_expected ==
            (old_expected * (lr.den - lr.num) * n + SumSeq(recent) * lr.num)
                \div (lr.den * n)
        s1 == [st EXCEPT !.recent_delays = recent]
    IN  IF Abs(new_expected - old_expected) > LearningDeadbandMs
        THEN SaveToFile([s1 EXCEPT !.calibration.expected_delay_ms = new_expected,
                                   !.calibration.sample_count = @ + 1],
                        writable)
        ELSE s1

\* _update_calibration: the learning step after an accepted pair.  st is the
\* state of the pass in progress.
UpdateCalibration(st, actual_delay, writable) ==
    LET recent == LastN(Append(st.recent_delays, actual_delay), max_learning_samples)
        n == Len(recent)
        old_expected == st.calibration.expected_delay_ms
        lr == st.calibration.learning_rate
        new_expected ==
            (old_expected * (lr.den - lr.num) * n + SumSeq(recent) * lr.num)
                \div (lr.den * n)
        s1 == [st EXCEPT !.recent_delays = recent]
    IN  IF n >= MinLearningSamples /\ Abs(new_expected - old_expected) > LearningDeadbandMs
        THEN SaveToFile([s1 EXCEPT !.calibration.expected_delay_ms = new_expected,
                                   !.calibration.sample_count = @ + 1],
                        writable)
        ELSE s1

\* ---- the tasks of the event loop ----

\* A pass that awaits nothing.
NoAwait == [coroutine |-> "none", actual_delay |-> 0]

\* Every await handing control back to the event loop.
AwaitSuspendsAlways(coroutine) == TRUE

\* The coroutines of the correlator whose body holds an await of something
\* that may not be finished: none (lines 231-257 and 259-273 hold no await).
SuspendingCoroutines == {}

\* "await coroutine()" runs the coroutine inside the awaiting task; the task
\* hands control back to the event loop only if the coroutine itself suspends.
AwaitSuspends(coroutine) == coroutine \in SuspendingCoroutines

\* One iteration of "for shot in self.pending_shots" (lines 155-203).
CorrelateShot(st, impacts, shot, writable) ==
    LET best == BestImpact(impacts, shot, st.calibration, st.used_impacts, 1,
                           [index |-> 0, difference |-> -1])
        decision(after) ==
            [shot |-> shot, impacts |-> impacts, used_impacts |-> st.used_impacts,
             calibration |-> st.calibration, best_index |-> best.index,
             paired |-> Len(after.new_pairs) > Len(st.new_pairs),
             calibration_after |-> after.calibration,
             recent_delays |-> st.recent_delays,
             recent_delays_after |-> after.recent_delays]
        decided(after) == [after EXCEPT !.decisions = Append(st.decisions, decision(after))]
    IN  IF best.index = 0 THEN decided(st)
        ELSE
        LET best_impact == impacts[best.index]
            actual_delay == (best_impact.timestamp - shot.timestamp) \div TicksPerMs
            pair == [shot |-> shot, impact |-> best_impact, delay_ms |-> actual_delay,
                     confidence |-> CalculateConfidence(st.calibration, actual_delay)]
            st1 == [st EXCEPT !.new_pairs = Append(@, pair),
                              !.used_impacts = @ \cup {best.index},
                              !.correlated_pairs = Append(@, pair),
                              !.appended = Append(@, [pair |-> pair,
                                                     calibration |-> st.calibration])]
        IN  IF IsValid(pair, st.calibration)
            THEN IF AwaitSuspends("_update_calibration")
                 THEN decided([st1 EXCEPT !.awaiting =
                                              [coroutine |-> "_update_calibration",
                                               actual_delay |-> actual_delay]])
                 ELSE decided(UpdateCalibration(st1, actual_delay, writable))
            ELSE decided(st)

\* The loop over pending_shots from index k on; an exception ends it and a
\* suspension interrupts it.
RECURSIVE CorrelateLoop(_, _, _, _, _)
CorrelateLoop(st, shots, impacts, k, writable) ==
    IF k > Len(shots) \/ st.raised \/ st.awaiting # NoAwait
    THEN [st EXCEPT !.next = k]
    ELSE CorrelateLoop(CorrelateShot(st, impacts, shots[k], writable),
                       shots, impacts, k + 1, writable)

\* for pair in new_pairs: pending_shots.remove(pair.shot)
RECURSIVE RemoveShots(_, _)
RemoveShots(shots, new_pairs) ==
    IF new_pairs = <<>> THEN shots
    ELSE RemoveShots(ListRemove(shots, Head(new_pairs).shot), Tail(new_pairs))

\* _cleanup_old_data
CleanupOldData(c) ==
    LET cutoff_time == c.clock - PairRetentionMs * TicksPerMs
    IN  [c EXCEPT !.correlated_pairs =
                      SelectSeq(@, LAMBDA p : p.shot.timestamp >= cutoff_time),
                  !.pending_shots = LastN(@, max_buffer_size),
                  !.pending_impacts = LastN(@, max_buffer_size)]

\* The frame of a _correlate_events task that has not run yet.
NewFrame(c) ==
    [new_pairs |-> <<>>, used_impacts |-> {}, shots |-> c.pending_shots, next |-> 1,
     awaiting |-> NoAwait, decisions |-> <<>>]

\* _correlate_events, run by the event loop from the place its frame is at
\* until it ends or is suspended at an await.  No coroutine it awaits
\* suspends, so a pass is one step from line 152 to line 217.  When
\* save_to_file raises, the exception leaves the pass at line 202: what the
\* loop has done so far stays, the removals of lines 205-217 do not happen.
\* A frame that was suspended goes on with the pending_impacts of the moment.
CorrelateEvents(c, frame, writable) ==
    LET st0 == [calibration |-> c.calibration,
                recent_delays |-> c.recent_delays,
                correlated_pairs |-> c.correlated_pairs,
                appended |-> c.appended,
                new_pairs |-> frame.new_pairs,
                used_impacts |-> frame.used_impacts,
                next |-> frame.next,
                awaiting |-> NoAwait,
                decisions |-> frame.decisions,
                raised |-> FALSE]
        st1 == IF frame.awaiting.coroutine = "_update_calibration"
               THEN UpdateCalibration(st0, frame.awaiting.actual_delay, writable)
               ELSE st0
        st == IF frame.awaiting.coroutine = "_cleanup_old_data"
              THEN st1
              ELSE CorrelateLoop(st1, frame.shots, c.pending_impacts, frame.next, writable)
        c1 == [c EXCEPT !.calibration = st.calibration,
                        !.recent_delays = st.recent_delays,
                        !.correlated_pairs = st.correlated_pairs,
                        !.appended = st.appended]
        left == [frame EXCEPT !.new_pairs = st.new_pairs,
                              !.used_impacts = st.used_impacts,
                              !.next = st.next,
                              !.awaiting = st.awaiting,
                              !.decisions = st.decisions]
        done == [c1 EXCEPT !.last_pass = [ran |-> TRUE, raised |-> st.raised,
                                          new_pairs |-> st.new_pairs,
                                          decisions |-> st.decisions]]
        removed == [done EXCEPT !.pending_shots = RemoveShots(@, st.new_pairs),
                                !.pending_impacts = DeleteIndices(@, st.used_impacts)]
    IN  IF st.raised THEN done
        ELSE IF st.awaiting # NoAwait
        THEN [c1 EXCEPT !.suspended = Append(@, left)]
        ELSE IF frame.awaiting.coroutine = "_cleanup_old_data"
        THEN CleanupOldData(done)
        ELSE IF AwaitSuspends("_cleanup_old_data")
        THEN [removed EXCEPT !.last_pass = c.last_pass,
                             !.suspended =
                                 Append(@, [left EXCEPT !.awaiting.coroutine =
                                                            "_cleanup_old_data"])]
        ELSE CleanupOldData(removed)

\* The event loop runs a task: the suspended task number i, or for i = 0 a
\* task created by an insertion and not yet started.
RunTask(c, i, writable) ==
    IF i = 0
    THEN CorrelateEvents([c EXCEPT !.tasks = c.tasks - 1], NewFrame(c), writable)
    ELSE CorrelateEvents([c EXCEPT !.suspended =
                                       SubSeq(@, 1, i - 1) \o SubSeq(@, i + 1, Len(@))],
                         c.suspended[i], writable)


\* The timer's shot number is not part of what the model varies: shots with
\* the same timestamp are equal dataclass values, distinct objects.
ShotNumbers == {1}

\* ---- actions of the correlator ----

\* A caller hands in a shot; the timestamps of one stream never go back.
AddShot ==
    /\ rtc.n_shots < MaxShots
    /\ \E t \in Times, n \in ShotNumbers :
          /\ t >= rtc.shot_clock
          /\ rtc' = AddShotEvent(rtc, t, n)
    /\ UNCHANGED <<hd, eid, sd, fb, mpd, par, tc>>

\* A caller hands in an impact (weak ones are dropped by the call).
AddImpact ==
    /\ rtc.n_impacts < MaxImpacts
    /\ \E t \in Times, m \in Magnitudes :
          /\ t >= rtc.impact_clock
          /\ rtc' = AddImpactEvent(rtc, t, m)
    /\ UNCHANGED <<hd, eid, sd, fb, mpd, par, tc>>

\* The event loop runs one _correlate_events task until it ends or suspends;
\* the calibration file is writable or not.
Correlate ==
    /\ rtc.tasks + Len(rtc.suspended) > 0
    /\ \E writable \in BOOLEAN, i \in 0..Len(rtc.suspended) :
          /\ i = 0 => rtc.tasks > 0
          /\ rtc' = RunTask(rtc, i, writable)
    /\ UNCHANGED <<hd, eid, sd, fb, mpd, par, tc>>

NextCalibrator == AddShot \/ AddImpact \/ Correlate

\* ---- a session whose delays lie at the edge of the tolerance ----

\* More events than above, at few timestamps (ticks): shots at 0 and 20 ms,
\* impacts at 1200 and 1240 ms, all of magnitude 200.
MaxLearningShots == 4
MaxLearningImpacts == 4
LearningShotTimes == {0, 40}
LearningImpactTimes == {2400, 2480}

AddShotLearning ==
    /\ rtc.n_shots < MaxLearningShots
    /\ \E t \in LearningShotTimes, n \in ShotNumbers :
          /\ t >= rtc.shot_clock
          /\ rtc' = AddShotEvent(rtc, t, n)
    /\ UNCHANGED <<hd, eid, sd, fb, mpd, par, tc>>

AddImpactLearning ==
    /\ rtc.n_impacts < MaxLearningImpacts
    /\ \E t \in LearningImpactTimes, m \in {200} :
          /\ t >= rtc.impact_clock
          /\ rtc' = AddImpactEvent(rtc, t, m)
    /\ UNCHANGED <<hd, eid, sd, fb, mpd, par, tc>>

NextLearning == AddShotLearning \/ AddImpactLearning \/ Correlate



(***************************************************************************)
(*                            HitDetector                                  *)
(***************************************************************************)

\* ---- bound of the model ----
MaxHitSamples == 6      \* process_sample calls on the detector in one behaviour

\* ---- program constants ----
NsPerMs == 1000000
BaselineMaxLen == 100           \* deque(maxlen=100)
BaselineMinSamples == 10
FallbackMinSamples == 3
DecayPeakPercent == 60          \* amplitude <= peak_amp * 0.6
RapidDropPercent == 55          \* amplitude <= prev_amp * 0.55
None == -1                      \* Optional[int] = None (every timestamp is >= 0)
NoEvent == [kind |-> "None"]    \* process_sample returns None

\* DetectorParams of tests/test_detector.py (amplitudes in hundredths).
TestParams ==
    [trigger_high |-> 50, trigger_low |-> 10, ring_min_ms |-> 10, dead_time_ms |-> 50,
     warmup_ms |-> 100, baseline_min |-> 1, min_amp |-> 5]

\* DetectorParams whose min_amp lies above trigger_high: nothing in
\* DetectorParams or in the configuration's validation relates the two.
HighMinAmpParams ==
    [trigger_high |-> 25, trigger_low |-> 10, ring_min_ms |-> 10, dead_time_ms |-> 50,
     warmup_ms |-> 100, baseline_min |-> 1, min_amp |-> 40]

DetectorParamSets == {TestParams, HighMinAmpParams}

\* Inputs: the time between two samples and the amplitude of a sample.
StepsNs == {5 * NsPerMs, 60 * NsPerMs}
Amplitudes == {2, 8, 30, 60}

\* HitDetector.__init__ at monotonic time 0.
InitHitDetector(params) ==
    [params |-> params,
     triggered |-> FALSE,
     trigger_start_ns |-> None,
     last_hit_ns |-> None,
     warmup_end_ns |-> 0 + params.warmup_ms * NsPerMs,
     baseline_samples |-> <<>>,
     baseline |-> params.baseline_min,
     event_samples |-> <<>>,
     returned |-> NoEvent,      \* what the last process_sample call returned
     now |-> 0,                 \* timestamp_ns of the last call
     amplitude |-> 0,           \* amplitude of the last call
     n_samples |-> 0,           \* calls so far
     n_warmup |-> 0,            \* history: calls that fell in the warmup
     peak_seen |-> 0,           \* history: the largest amplitude handed in
     discarded |-> 0,           \* history: triggers reset without an event
     events |-> <<>>]           \* history: every HitEvent returned

RECURSIVE MinSeq(_)
MinSeq(s) == IF Len(s) = 1 THEN s[1]
             ELSE IF Head(s) <= MinSeq(Tail(s)) THEN Head(s) ELSE MinSeq(Tail(s))

\* deque(maxlen=100).append
DequeAppend(q, x) == LastN(Append(q, x), BaselineMaxLen)

InWarmupNever(d, timestamp_ns) == FALSE

\* line 66: the sample falls into the warmup period
InWarmup(d, timestamp_ns) == timestamp_ns < d.warmup_end_ns

\* _update_baseline
UpdateBaseline(d, amplitude) ==
    LET samples == DequeAppend(d.baseline_samples, amplitude)
    IN  [d EXCEPT !.baseline_samples = samples,
                  !.baseline = IF Len(samples) >= BaselineMinSamples
                               THEN Max2(MinSeq(samples), d.params.baseline_min)
                               ELSE @]

\* line 74 with the filter left out.
BelowMinAmpNever(d, amplitude) == FALSE

\* line 74: the sample is below the minimum amplitude
BelowMinAmp(d, amplitude) == amplitude < d.params.min_amp

\* lines 78-79 with the dead-time test left out.
InDeadTimeNever(d, timestamp_ns) == FALSE

\* lines 78-79: too soon after the last hit
InDeadTime(d, timestamp_ns) ==
    /\ d.last_hit_ns # None
    /\ timestamp_ns - d.last_hit_ns < d.params.dead_time_ms * NsPerMs

\* line 83
NormalizedAmp(d, amplitude) == Max2(amplitude - d.baseline, 0)

\* lines 103-104 and 119-120 with the ring-time test left out.
RingMinElapsedAlways(d, timestamp_ns) == TRUE

\* lines 103-104 and 119-120: the trigger has lasted ring_min_ms
RingMinElapsed(d, timestamp_ns) ==
    timestamp_ns - d.trigger_start_ns >= d.params.ring_min_ms * NsPerMs

\* The peak loop of _create_hit_event: the first sample of the largest amplitude.
RECURSIVE PeakOf(_, _, _)
PeakOf(samples, k, peak) ==
    IF k > Len(samples) THEN peak
    ELSE IF samples[k][2] > peak.amp
    THEN PeakOf(samples, k + 1, [amp |-> samples[k][2], ts |-> samples[k][1]])
    ELSE PeakOf(samples, k + 1, peak)

RECURSIVE SumSquares(_)
SumSquares(samples) ==
    IF samples = <<>> THEN 0
    ELSE Head(samples)[2] * Head(samples)[2] + SumSquares(Tail(samples))

\* _create_hit_event.  duration_ms is duration_ns / 1e6 and rms_amplitude is
\* the square root of sum_squares / n.
CreateHitEvent(d) ==
    LET peak == PeakOf(d.event_samples, 1, [amp |-> 0, ts |-> d.event_samples[1][1]])
    IN  [kind |-> "HitEvent",
         timestamp_ns |-> peak.ts,
         peak_amplitude |-> peak.amp,
         duration_ns |-> d.event_samples[Len(d.event_samples)][1] - d.event_samples[1][1],
         sum_squares |-> SumSquares(d.event_samples),
         n |-> Len(d.event_samples)]

\* _reset_trigger with the triggered flag left set.
ResetTriggerStays(d) ==
    [d EXCEPT !.trigger_start_ns = None, !.event_samples = <<>>]

\* _reset_trigger
ResetTrigger(d) ==
    [d EXCEPT !.triggered = FALSE, !.trigger_start_ns = None, !.event_samples = <<>>]

\* lines 108-111 and 134-137: build the event, reset, note the hit time.
Release(d, timestamp_ns, path) ==
    LET hit_event == CreateHitEvent(d)
    IN  [ResetTrigger(d) EXCEPT
            !.last_hit_ns = timestamp_ns,
            !.returned = hit_event,
            !.events = Append(@, [event |-> hit_event,
                                  trigger_start_ns |-> d.trigger_start_ns,
                                  release_ns |-> timestamp_ns,
                                  path |-> path])]

\* lines 120-131 with the fallback left out.
FallbackReleaseNever(d, timestamp_ns, amplitude) == FALSE

\* lines 120-131: the decay fallback
FallbackRelease(d, timestamp_ns, amplitude) ==
    /\ RingMinElapsed(d, timestamp_ns)
    /\ Len(d.event_samples) >= FallbackMinSamples
    /\ LET peak_amp == MaxSeq([k \in 1..Len(d.event_samples) |-> d.event_samples[k][2]])
           prev_amp == d.event_samples[Len(d.event_samples) - 1][2]
           decayed_from_peak == peak_amp > 0 /\ amplitude * 100 <= peak_amp * DecayPeakPercent
           rapid_drop == prev_amp > 0 /\ amplitude * 100 <= prev_amp * RapidDropPercent
       IN  decayed_from_peak \/ rapid_drop

\* line 88 with trigger_low in the place of trigger_high.
TriggerLevelReachedAtLow(d, normalized_amp) == normalized_amp >= d.params.trigger_low

\* line 88: the normalized amplitude reaches trigger_high
TriggerLevelReached(d, normalized_amp) == normalized_amp >= d.params.trigger_high

\* lines 86-139: the trigger state machine, for a sample that passed the filters.
StateMachine(d, timestamp_ns, amplitude) ==
    LET normalized_amp == NormalizedAmp(d, amplitude)
    IN  IF ~d.triggered
        THEN IF TriggerLevelReached(d, normalized_amp)
             THEN [d EXCEPT !.triggered = TRUE,
                            !.trigger_start_ns = timestamp_ns,
                            !.event_samples = <<<<timestamp_ns, amplitude>>>>]
             ELSE d
        ELSE
        LET d1 == [d EXCEPT !.event_samples = Append(@, <<timestamp_ns, amplitude>>)]
        IN  IF normalized_amp <= d.params.trigger_low
            THEN IF RingMinElapsed(d1, timestamp_ns)
                 THEN Release(d1, timestamp_ns, "primary")
                 ELSE [ResetTrigger(d1) EXCEPT !.discarded = @ + 1]
            ELSE IF FallbackRelease(d1, timestamp_ns, amplitude)
                 THEN Release(d1, timestamp_ns, "fallback")
                 ELSE d1

\* HitDetector.process_sample; the event, or None, is in the field returned.
ProcessSample(d, timestamp_ns, amplitude) ==
    LET d0 == [d EXCEPT !.returned = NoEvent]
    IN  IF InWarmup(d0, timestamp_ns)
        THEN [d0 EXCEPT !.baseline_samples = DequeAppend(@, amplitude)]
        ELSE
        LET d1 == UpdateBaseline(d0, amplitude)
        IN  IF BelowMinAmp(d1, amplitude) THEN d1
            ELSE IF InDeadTime(d1, timestamp_ns) THEN d1
            ELSE StateMachine(d1, timestamp_ns, amplitude)

\* ---- action of the detector ----

\* The next sample of the sensor arrives, step nanoseconds after the last.
HitSample ==
    /\ hd.n_samples < MaxHitSamples
    /\ \E step \in StepsNs, a \in Amplitudes :
          hd' = [ProcessSample(hd, hd.now + step, a) EXCEPT
                    !.now = hd.now + step,
                    !.amplitude = a,
                    !.n_samples = hd.n_samples + 1,
                    !.n_warmup = IF InWarmup(hd, hd.now + step) THEN @ + 1 ELSE @,
                    !.peak_seen = Max2(hd.peak_seen, a)]
    /\ UNCHANGED <<rtc, eid, sd, fb, mpd, par, tc>>

NextHitDetector == HitSample

(***************************************************************************)
(*                          MultiPlateDetector                             *)
(* _detectors maps a plate id to its HitDetector; a plate without one maps *)
(* to NoDetector.  The samples carry time.monotonic_ns() of their          *)
(* reception, the clock the constructor of a HitDetector reads.            *)
(***************************************************************************)

MaxPlateCalls == 5      \* calls on the MultiPlateDetector in one behaviour

PlateIds == {"P1", "P2"}
PlateStepsNs == {60 * NsPerMs}
PlateAmplitudes == {2, 60}

NoDetector == [kind |-> "absent"]
NoCall == [op |-> "none", plate_id |-> "", returned |-> NoEvent]

\* MultiPlateDetector.__init__
InitMultiPlate(detector_params) ==
    [params |-> detector_params,
     detectors |-> [p \in PlateIds |-> NoDetector],
     now |-> 0,             \* time.monotonic_ns()
     n_calls |-> 0,         \* calls so far
     last_call |-> NoCall]  \* the latest call and what it returned

\* HitDetector.__init__ at monotonic time now_ns.
NewHitDetector(params, now_ns) ==
    [InitHitDetector(params) EXCEPT !.warmup_end_ns = now_ns + params.warmup_ms * NsPerMs]

\* add_plate
AddPlate(m, plate_id) ==
    IF m.detectors[plate_id] = NoDetector
    THEN [m EXCEPT !.detectors[plate_id] = NewHitDetector(m.params, m.now)]
    ELSE m

\* process_sample routing every sample to every detector there is.
PlateProcessSampleAllPlates(m, plate_id, timestamp_ns, amplitude) ==
    LET m1 == IF m.detectors[plate_id] = NoDetector THEN AddPlate(m, plate_id) ELSE m
    IN  [m1 EXCEPT
           !.detectors = [p \in PlateIds |->
                             IF m1.detectors[p] = NoDetector THEN NoDetector
                             ELSE ProcessSample(m1.detectors[p], timestamp_ns, amplitude)]]

\* MultiPlateDetector.process_sample; what it returns is the field returned
\* of the plate's detector.
PlateProcessSample(m, plate_id, timestamp_ns, amplitude) ==
    LET m1 == IF m.detectors[plate_id] = NoDetector THEN AddPlate(m, plate_id) ELSE m
    IN  [m1 EXCEPT
           !.detectors[plate_id] = ProcessSample(@, timestamp_ns, amplitude)]

\* get_detector_status; is_warmed_up reads the clock.
GetDetectorStatus(m, plate_id) ==
    IF m.detectors[plate_id] = NoDetector
    THEN [error |-> "Detector not found"]
    ELSE LET detector == m.detectors[plate_id]
         IN  [plate_id |-> plate_id,
              warmed_up |-> m.now >= detector.warmup_end_ns,
              baseline |-> detector.baseline,
              sample_count |-> Len(detector.baseline_samples),
              triggered |-> detector.triggered]

\* ---- actions of the MultiPlateDetector ----

PlateAdd ==
    /\ mpd.n_calls < MaxPlateCalls
    /\ \E plate_id \in PlateIds, step \in PlateStepsNs :
          LET m == [mpd EXCEPT !.now = @ + step, !.n_calls = @ + 1]
          IN  mpd' = [AddPlate(m, plate_id) EXCEPT
                         !.last_call = [op |-> "add_plate", plate_id |-> plate_id,
                                        returned |-> NoEvent]]
    /\ UNCHANGED <<rtc, hd, eid, sd, fb, par, tc>>

\* A sample of one plate arrives and is stamped with the clock.
PlateSample ==
    /\ mpd.n_calls < MaxPlateCalls
    /\ \E plate_id \in PlateIds, step \in PlateStepsNs, a \in PlateAmplitudes :
          LET m == [mpd EXCEPT !.now = @ + step, !.n_calls = @ + 1]
              m1 == PlateProcessSample(m, plate_id, m.now, a)
          IN  mpd' = [m1 EXCEPT
                         !.last_call = [op |-> "process_sample", plate_id |-> plate_id,
                                        returned |-> m1.detectors[plate_id].returned]]
    /\ UNCHANGED <<rtc, hd, eid, sd, fb, par, tc>>

PlateStatus ==
    /\ mpd.n_calls < MaxPlateCalls
    /\ \E plate_id \in PlateIds, step \in PlateStepsNs :
          LET m == [mpd EXCEPT !.now = @ + step, !.n_calls = @ + 1]
          IN  mpd' = [m EXCEPT
                         !.last_call = [op |-> "get_detector_status", plate_id |-> plate_id,
                                        returned |-> GetDetectorStatus(m, plate_id)]]
    /\ UNCHANGED <<rtc, hd, eid, sd, fb, par, tc>>

NextMultiPlate == PlateAdd \/ PlateSample \/ PlateStatus

(***************************************************************************)
(*                       EnhancedImpactDetector                            *)
(* Timestamps are in milliseconds, magnitudes in raw counts.               *)
(***************************************************************************)

MaxOnsetSamples == 6

PeakThreshold == 150
OnsetThreshold == 30
LookbackSamples == 10
MinimumDurationSamples == 3
max_history == 20
FullConfidenceRatio == 5
FullConfidenceSamples == 6

SampleStepMs == 20
OnsetMagnitudes == {10, 30, 100, 150, 200}

Min2(a, b) == IF a <= b THEN a ELSE b

\* EnhancedImpactDetector.__init__ with the arguments FixedBridge passes.
InitOnsetDetector ==
    [threshold |-> PeakThreshold,
     onset_threshold |-> OnsetThreshold,
     lookback_samples |-> LookbackSamples,
     minimum_duration_samples |-> MinimumDurationSamples,
     sample_history |-> <<>>,
     in_impact |-> FALSE,
     current_impact_samples |-> <<>>,
     impact_start_index |-> -1,
     returned |-> NoEvent,      \* what the last process_sample returned
     now |-> 0,                 \* history: timestamp of the last sample
     n_samples |-> 0,           \* history: samples handed in
     windows |-> <<>>,          \* history: every window closed, with what was returned
     events |-> <<>>]           \* history: every ImpactEvent returned

\* max(samples, key=magnitude): the first sample of the largest magnitude.
PeakSample(samples) ==
    LET top == MaxSeq([k \in 1..Len(samples) |-> samples[k].magnitude])
        i == CHOOSE k \in 1..Len(samples) :
                /\ samples[k].magnitude = top
                /\ \A j \in 1..(k - 1) : samples[j].magnitude # top
    IN  samples[i]

\* _calculate_confidence as the exact fraction [num, den]:
\* 0.4*min(peak/max(onset,1)/5, 1) + 0.3*min(count/6, 1)
\*   + 0.3*min(peak/(1.5*threshold), 1); the result is already within [0, 1].
OnsetConfidence(e, onset_sample, peak_sample, sample_count) ==
    LET o == Max2(onset_sample.magnitude, 1)
        m_num == Min2(peak_sample.magnitude, FullConfidenceRatio * o)
        m_den == FullConfidenceRatio * o
        d_num == Min2(sample_count, FullConfidenceSamples)
        d_den == FullConfidenceSamples
        s_num == Min2(2 * peak_sample.magnitude, 3 * e.threshold)
        s_den == 3 * e.threshold
    IN  [num |-> 4 * m_num * d_den * s_den + 3 * d_num * m_den * s_den
                    + 3 * s_num * m_den * d_den,
         den |-> 10 * m_den * d_den * s_den]

\* line 114: the window is shorter than minimum_duration_samples.
WindowTooShort(e) == Len(e.current_impact_samples) < e.minimum_duration_samples

PeakBelowThresholdNever(e, peak_sample) == FALSE

\* line 126: the largest magnitude of the window is below the peak threshold.
PeakBelowThreshold(e, peak_sample) == peak_sample.magnitude < e.threshold

\* _start_impact_detection
StartImpactDetection(e, onset_sample) ==
    [e EXCEPT !.in_impact = TRUE,
              !.current_impact_samples = <<onset_sample>>,
              !.impact_start_index = Len(e.sample_history) - 1]

\* _end_impact_detection
EndImpactDetection(e, end_sample) ==
    LET e1 == [e EXCEPT !.in_impact = FALSE]
    IN  IF WindowTooShort(e1)
        THEN [e1 EXCEPT !.current_impact_samples = <<>>]
        ELSE
        LET onset_sample == e1.current_impact_samples[1]
            peak_sample == PeakSample(e1.current_impact_samples)
        IN  IF PeakBelowThreshold(e1, peak_sample)
            THEN [e1 EXCEPT !.current_impact_samples = <<>>]
            ELSE [e1 EXCEPT
                    !.returned =
                        [kind |-> "ImpactEvent",
                         onset_timestamp |-> onset_sample.timestamp,
                         peak_timestamp |-> peak_sample.timestamp,
                         onset_magnitude |-> onset_sample.magnitude,
                         peak_magnitude |-> peak_sample.magnitude,
                         duration_ms |-> end_sample.timestamp - onset_sample.timestamp,
                         sample_count |-> Len(e1.current_impact_samples),
                         confidence |-> OnsetConfidence(e1, onset_sample, peak_sample,
                                                        Len(e1.current_impact_samples))],
                    !.current_impact_samples = <<>>,
                    !.impact_start_index = -1]

\* EnhancedImpactDetector.process_sample; the event, or None, is in the field
\* returned.
OnsetProcessSample(e, timestamp, magnitude) ==
    LET sample == [timestamp |-> timestamp, magnitude |-> magnitude]
        e0 == [e EXCEPT !.returned = NoEvent,
                        !.sample_history = LastN(Append(@, sample), max_history)]
    IN  IF ~e0.in_impact
        THEN IF magnitude >= e0.onset_threshold
             THEN StartImpactDetection(e0, sample)
             ELSE e0
        ELSE
        LET e1 == [e0 EXCEPT !.current_impact_samples = Append(@, sample)]
        IN  IF magnitude < e1.onset_threshold
            THEN EndImpactDetection(e1, sample)
            ELSE e1

\* ---- action of the onset detector ----

\* The next corrected magnitude arrives; the history fields record the window
\* a closing sample ends together with what the call returned.
OnsetSample ==
    /\ eid.n_samples < MaxOnsetSamples
    /\ \E magnitude \in OnsetMagnitudes :
          LET timestamp == eid.now + SampleStepMs
              e2 == OnsetProcessSample(eid, timestamp, magnitude)
              closes == eid.in_impact /\ magnitude < eid.onset_threshold
              window == Append(eid.current_impact_samples,
                               [timestamp |-> timestamp, magnitude |-> magnitude])
          IN  eid' = [e2 EXCEPT
                        !.now = timestamp,
                        !.n_samples = eid.n_samples + 1,
                        !.windows = IF closes
                                    THEN Append(@, [samples |-> window,
                                                    returned |-> e2.returned])
                                    ELSE @,
                        !.events = IF e2.returned # NoEvent
                                   THEN Append(@, e2.returned) ELSE @]
    /\ UNCHANGED <<rtc, hd, sd, fb, mpd, par, tc>>

NextOnsetDetector == OnsetSample

(***************************************************************************)
(*                            ShotDetector                                 *)
(* Timestamps are time.time() in milliseconds.                             *)
(***************************************************************************)

ShotThreshold == 150
ShotMinDuration == 6
ShotMaxDuration == 11
ShotMinIntervalMs == 1000
RecentShotsKept == 10

\* No run of over-threshold samples has ended yet.
NoRun == [len |-> 0, clear |-> FALSE, event |-> NoEvent]

\* FixedBridge.shot_detector before the calibration has built the detector.
NoShotDetector == [kind |-> "None"]

\* ShotDetector.__init__ with the arguments FixedBridge passes.
InitShotDetector(baseline_x) ==
    [kind |-> "ShotDetector",
     baseline_x |-> baseline_x,
     threshold |-> ShotThreshold,
     min_duration |-> ShotMinDuration,
     max_duration |-> ShotMaxDuration,
     min_interval_ms |-> ShotMinIntervalMs,
     sample_count |-> 0,
     shot_count |-> 0,
     in_shot |-> FALSE,
     shot_start_sample |-> 0,
     shot_values |-> <<>>,
     last_shot_time |-> 0,
     recent_shots |-> <<>>,
     returned |-> NoEvent,
     \* history, kept by the action that feeds a detector on its own
     now |-> 0,                  \* timestamp of the latest sample
     run_len |-> 0,              \* length of the run of over-threshold samples
                                 \* the latest sample belongs to
     run_clear |-> FALSE,        \* no event was accepted less than
                                 \* min_interval before the run's first sample
     last_accept |-> None,       \* when the latest event was accepted
     first_sample_time |-> None, \* timestamp of the first accumulated sample
     emitted |-> <<>>,           \* the events returned so far
     closed |-> NoRun]           \* the last run that has ended

\* _reset_shot_state
ResetShotState(s) ==
    [s EXCEPT !.in_shot = FALSE, !.shot_start_sample = 0, !.shot_values = <<>>]

MinIntervalElapsedAlways(s, timestamp) == TRUE

\* line 112: the minimum interval since the last accepted shot has passed.
MinIntervalElapsed(s, timestamp) ==
    timestamp - s.last_shot_time >= s.min_interval_ms

\* ShotDetector.process_sample; the event, or None, is in the field returned.
ShotProcessSample(s, x_raw, timestamp) ==
    LET s0 == [s EXCEPT !.sample_count = @ + 1, !.returned = NoEvent]
        deviation == Abs(x_raw - s0.baseline_x)
        exceeds_threshold == deviation >= s0.threshold
    IN  IF ~s0.in_shot /\ exceeds_threshold
        THEN IF MinIntervalElapsed(s0, timestamp)
             THEN [s0 EXCEPT !.in_shot = TRUE,
                             !.shot_start_sample = s0.sample_count,
                             !.shot_values = <<x_raw>>]
             ELSE s0
        ELSE IF s0.in_shot /\ exceeds_threshold
        THEN LET s1 == [s0 EXCEPT !.shot_values = Append(@, x_raw)]
             IN  IF Len(s1.shot_values) > s1.max_duration
                 THEN ResetShotState(s1)
                 ELSE s1
        ELSE IF s0.in_shot
        THEN LET duration == Len(s0.shot_values)
             IN  IF duration >= s0.min_duration
                 THEN LET shot_event ==
                              [kind |-> "ShotEvent",
                               shot_id |-> s0.shot_count + 1,
                               start_sample |-> s0.shot_start_sample,
                               end_sample |-> s0.shot_start_sample + duration - 1,
                               duration_samples |-> duration,
                               max_deviation |->
                                   MaxSeq([k \in 1..duration |->
                                              Abs(s0.shot_values[k] - s0.baseline_x)]),
                               timestamp |-> timestamp,
                               x_values |-> s0.shot_values]
                      IN  [ResetShotState(s0) EXCEPT
                              !.shot_count = @ + 1,
                              !.recent_shots = LastN(Append(@, shot_event), RecentShotsKept),
                              !.last_shot_time = timestamp,
                              !.returned = shot_event]
                 ELSE ResetShotState(s0)
        ELSE s0

\* ---- a ShotDetector fed on its own, with explicit timestamps ----

MaxShotSamples == 14

\* The default baseline_x, and the raw x readings of the synthetic test: the
\* baseline and a deflection of 200 counts.
DefaultBaselineX == 2089
ShotReadings == {DefaultBaselineX, DefaultBaselineX + 200}

\* Time from one sample to the next: the sample interval, or a pause.
ShotStepsMs == {20, 1000}

\* One process_sample(x_raw, timestamp) call.  The history fields follow the
\* runs of over-threshold samples in the input and the events returned.
ShotSample ==
    /\ sd # NoShotDetector
    /\ sd.sample_count < MaxShotSamples
    /\ \E x_raw \in ShotReadings, step \in ShotStepsMs :
          LET timestamp == sd.now + step
              s1 == ShotProcessSample(sd, x_raw, timestamp)
              over == Abs(x_raw - sd.baseline_x) >= sd.threshold
              starts_run == over /\ sd.run_len = 0
              ends_run == ~over /\ sd.run_len > 0
              event == s1.returned
          IN  sd' = [s1 EXCEPT
                       !.now = timestamp,
                       !.run_len = IF over THEN @ + 1 ELSE 0,
                       !.run_clear =
                           IF starts_run
                           THEN \/ sd.last_accept = None
                                \/ timestamp - sd.last_accept >= sd.min_interval_ms
                           ELSE IF over THEN @ ELSE FALSE,
                       !.first_sample_time =
                           IF ~sd.in_shot /\ s1.in_shot THEN timestamp ELSE @,
                       !.last_accept = IF event # NoEvent THEN timestamp ELSE @,
                       !.emitted =
                           IF event # NoEvent
                           THEN Append(@, [accepted_at |-> timestamp,
                                           first_sample_time |-> sd.first_sample_time,
                                           duration_samples |-> event.duration_samples])
                           ELSE @,
                       !.closed =
                           IF ends_run
                           THEN [len |-> sd.run_len, clear |-> sd.run_clear,
                                 event |-> event]
                           ELSE @]
    /\ UNCHANGED <<rtc, hd, eid, fb, mpd, par, tc>>

NextShotDetector == ShotSample

(***************************************************************************)
(*                             FixedBridge                                 *)
(* The bridge with all of its imports available (PARSER_AVAILABLE,         *)
(* TIMING_AVAILABLE, ENHANCED_DETECTION_AVAILABLE) and the defaults of the *)
(* development configuration.  Its timing_calibrator,                      *)
(* enhanced_impact_detector and                                            *)
(* shot_detector are the variables rtc, eid and sd; a world is the bridge  *)
(* together with them.  Times are in milliseconds.                         *)
(***************************************************************************)

MaxPolls == 3
MaxAmgNotifications == 1
MaxDetectNotifications == 3

CALIBRATION_SAMPLES == 100
FrameBytes == 32
CalibrationTimeoutMs == 30000
StabilizeMs == 1000
EpochMs == 1000000

\* How long one asyncio.sleep(0.1) of the polling loop takes: the interval
\* itself, or a long stall of the event loop.
PollSleepMs == {100, 30000}

\* Sub-frames in one vibration notification: a payload shorter than one
\* sub-frame, one sub-frame, a full payload.
FrameCounts == {0, 1, 16}
DetectionFrameCounts == {0, 1, 2}

\* Raw (x, y, z) readings: the sensor at rest, as the operator is asked to keep
\* it during calibration (line 262), and two deflections of the x axis.
RestReading == <<2000, 12, -7>>
CalibrationReadings == {RestReading}
DetectionReadings == {RestReading, <<2040, 12, -7>>, <<2200, 12, -7>>}

\* Timer frames: START, SHOT 1 at 0.50 s, STOP, and a one-byte fragment.
AmgFrames ==
    {[len |-> 14, header |-> 1, type |-> 5, shot_number |-> 0, time_cs |-> 0, string_number |-> 2],
     [len |-> 14, header |-> 1, type |-> 3, shot_number |-> 1, time_cs |-> 50, string_number |-> 2],
     [len |-> 14, header |-> 1, type |-> 8, shot_number |-> 0, time_cs |-> 120, string_number |-> 2],
     [len |-> 1, header |-> 1, type |-> 0, shot_number |-> 0, time_cs |-> 0, string_number |-> 0]}

\* No timer notification yet.
NoAmg == [kind |-> "none"]

\* FixedBridge.__init__
InitBridge ==
    [baseline_x |-> None, baseline_y |-> None, baseline_z |-> None,
     calibration_complete |-> FALSE,
     calibration_samples |-> <<>>,
     collecting_calibration |-> FALSE,
     start_beep_time |-> None,
     previous_shot_time |-> None,
     impact_counter |-> 0,
     shot_counter |-> 0,
     current_string_number |-> 1,
     amg_handler |-> FALSE,     \* amg_notification_handler is registered
     bt50_handler |-> "none",   \* the handler registered for the sensor
     pc |-> "connect_amg",      \* where connect_devices stands
     start_time |-> 0,          \* start_time of perform_startup_calibration
     now |-> 0,                 \* the wall clock
     polls |-> 0,               \* iterations of the polling loop so far
     n_amg |-> 0,               \* timer notifications delivered
     string_open |-> FALSE,     \* history: a START frame was received and
                                \* no STOP frame since
     last_amg |-> NoAmg,        \* history: the last timer notification
     n_detect |-> 0,            \* notifications delivered to the detection handler
     last_decoded |-> <<>>,     \* history: the raw samples parse_5561 found
                                \* in the last of them
     deadline_missed |-> FALSE, \* history: the loop woke past the timeout
                                \* with fewer than CALIBRATION_SAMPLES samples
     collected_in_time |-> FALSE] \* history: the CALIBRATION_SAMPLES-th sample
                                  \* was collected while the loop was waiting,
                                  \* no later than the timeout

\* int(a / b) of Python for b > 0: the quotient truncated towards zero.
TruncDiv(a, b) == IF a >= 0 THEN a \div b ELSE -((-a) \div b)

\* (x**2 + y**2 + z**2)**0.5, rounded down to a whole count; the thresholds
\* it is compared with are whole counts.
Magnitude(x, y, z) ==
    LET sq == x * x + y * y + z * z
    IN  CHOOSE r \in 0..sq : r * r <= sq /\ (r + 1) * (r + 1) > sq

Uint16Le(lo, hi) == lo + 256 * hi

\* struct.unpack('<h', ...): two bytes, low byte first, as a signed 16-bit value.
Int16Le(lo, hi) ==
    LET u == lo + 256 * hi
    IN  IF u >= 32768 THEN u - 65536 ELSE u

\* The two bytes of a signed 16-bit value, low byte first, as the sensor sends it.
BytesLe(v) ==
    LET u == IF v < 0 THEN v + 65536 ELSE v
    IN  <<u % 256, u \div 256>>

\* One 32-byte sub-frame of the sensor: 0x55 0x61, x at bytes 14-15, y at
\* bytes 16-17, z at bytes 26-27, zeros elsewhere.
Frame5561(raw) ==
    [i \in 1..FrameBytes |->
        IF i = 1 THEN 85
        ELSE IF i = 2 THEN 97
        ELSE IF i \in {15, 16} THEN BytesLe(raw[1])[i - 14]
        ELSE IF i \in {17, 18} THEN BytesLe(raw[2])[i - 16]
        ELSE IF i \in {27, 28} THEN BytesLe(raw[3])[i - 26]
        ELSE 0]

RECURSIVE Repeat(_, _)
\* k copies of a byte sequence, back to back.
Repeat(bytes, k) == IF k = 0 THEN <<>> ELSE bytes \o Repeat(bytes, k - 1)

\* A notification of k sub-frames of one reading; with no sub-frame, a
\* fragment shorter than a sub-frame.
Payload5561(k, raw) ==
    IF k = 0 THEN SubSeq(Frame5561(raw), 1, 10) ELSE Repeat(Frame5561(raw), k)

\* The scan going on for as long as two bytes are left to look at.
ScanDoneAtEnd(payload, i) == i + 2 > Len(payload)

\* line 42: fewer than FrameBytes bytes are left from offset i on.
ScanDone(payload, i) == i + FrameBytes > Len(payload)

\* Bytes of a sub-frame the decoder needs from its marker on (line 46).
FrameBytesRead == 28

RECURSIVE ScanFrames(_, _, _)
\* The scanning loop of parse_5561 from byte offset i (0-based) on.
ScanFrames(payload, i, frames) ==
    IF ScanDone(payload, i) THEN frames
    ELSE IF payload[i + 1] = 85 /\ payload[i + 2] = 97
    THEN IF i + FrameBytesRead > Len(payload) THEN frames
         ELSE
         ScanFrames(payload, i + FrameBytes,
                    Append(frames,
                           [raw |-> <<Int16Le(payload[i + 15], payload[i + 16]),
                                      Int16Le(payload[i + 17], payload[i + 18]),
                                      Int16Le(payload[i + 27], payload[i + 28])>>,
                            offset |-> i]))
    ELSE ScanFrames(payload, i + 1, frames)

RECURSIVE ScanReads(_, _, _)
\* The highest position of the payload (1-based) the scanning loop reads,
\* by index (lines 44) or by slice (lines 50-52), from byte offset i on.
ScanReads(payload, i, highest) ==
    IF ScanDone(payload, i) THEN highest
    ELSE IF payload[i + 1] # 85 THEN ScanReads(payload, i + 1, Max2(highest, i + 1))
    ELSE IF payload[i + 2] # 97 THEN ScanReads(payload, i + 1, Max2(highest, i + 2))
    ELSE IF i + FrameBytesRead > Len(payload) THEN Max2(highest, i + 2)
    ELSE ScanReads(payload, i + FrameBytes, Max2(highest, i + FrameBytesRead))

\* The highest position parse_5561 reads; 0 when it reads nothing.
Parse5561Reads(payload) ==
    IF Len(payload) < FrameBytes THEN 0 ELSE ScanReads(payload, 0, 0)

\* parse_5561: the samples of the payload; <<>> stands for the None returned
\* for a payload too short or without a sub-frame.
Parse5561(payload) ==
    IF Len(payload) < FrameBytes THEN <<>> ELSE ScanFrames(payload, 0, <<>>)

\* calibration_notification_handler that also hands the first sample to the
\* detectors.
CalibrationHandlerDetecting(w, data) ==
    LET samples == Parse5561(data)
        raw == samples[1].raw
    IN  IF samples = <<>> THEN w
        ELSE [w EXCEPT
                !.fb.calibration_samples =
                    @ \o [k \in 1..Len(samples) |-> samples[k].raw],
                !.eid = OnsetProcessSample(w.eid, w.fb.now,
                                           Magnitude(raw[1], raw[2], raw[3]))]

\* calibration_notification_handler: collect every sample of the notification
\* up to the CALIBRATION_SAMPLES-th.
CalibrationNotificationHandler(w, data) ==
    IF ~w.fb.collecting_calibration THEN w
    ELSE
    LET samples == Parse5561(data)
        room == CALIBRATION_SAMPLES - Len(w.fb.calibration_samples)
        taken == IF Len(samples) >= room
                 THEN SubSeq(samples, 1, Max2(room, 1))
                 ELSE samples
        collected == w.fb.calibration_samples \o [k \in 1..Len(taken) |-> taken[k].raw]
    IN  IF samples = <<>> THEN w
        ELSE [w EXCEPT
                !.fb.calibration_samples = collected,
                !.fb.collecting_calibration = ~(Len(collected) >= CALIBRATION_SAMPLES)]

\* lines 576-711 of bt50_notification_handler: one sample is corrected by the
\* baseline and handed to the shot detector and the onset detector; an impact
\* the onset detector returns goes to the correlator.
DetectSample(w, raw) ==
    LET vx_corrected == raw[1] - w.fb.baseline_x
        vy_corrected == raw[2] - w.fb.baseline_y
        vz_corrected == raw[3] - w.fb.baseline_z
        magnitude_corrected == Magnitude(vx_corrected, vy_corrected, vz_corrected)
        sd1 == IF w.sd # NoShotDetector
               THEN ShotProcessSample(w.sd, raw[1], EpochMs + w.fb.now)
               ELSE w.sd
        eid1 == OnsetProcessSample(w.eid, w.fb.now, magnitude_corrected)
        impact_event == eid1.returned
    IN  IF impact_event = NoEvent
        THEN [w EXCEPT !.sd = sd1, !.eid = eid1]
        ELSE [w EXCEPT
                !.sd = sd1,
                !.eid = eid1,
                !.fb.impact_counter = @ + 1,
                !.rtc = AddImpactEvent(w.rtc, impact_event.onset_timestamp * TicksPerMs,
                                       impact_event.peak_magnitude)]

\* bt50_notification_handler: nothing before the calibration is complete;
\* afterwards the first sample of the notification is processed.
Bt50NotificationHandler(w, data) ==
    IF ~w.fb.calibration_complete THEN w
    ELSE
    LET samples == Parse5561(data)
    IN  IF samples = <<>> THEN w
        ELSE DetectSample(w, samples[1].raw)

\* amg_notification_handler.  The STOP branch raises NameError at line 539
\* (current_string is not defined there), before its resets at lines 547-550.
AmgNotificationHandler(w, data) ==
    IF data.len < 2 THEN w
    ELSE IF data.header = 1 /\ data.type = 5
    THEN [w EXCEPT
            !.fb.start_beep_time = w.fb.now,
            !.fb.current_string_number = IF data.len >= 14 THEN data.string_number ELSE 1,
            !.fb.impact_counter = 0,
            !.fb.previous_shot_time = None,
            !.fb.shot_counter = 0]
    ELSE IF data.header = 1 /\ data.type = 3 /\ data.len >= 14
    THEN LET reception_timestamp == w.fb.now
             timer_split_ms == data.time_cs * 10
             actual_shot_timestamp ==
                 IF w.fb.start_beep_time # None
                 THEN w.fb.start_beep_time + timer_split_ms
                 ELSE reception_timestamp
         IN  [w EXCEPT
                !.fb.previous_shot_time = actual_shot_timestamp,
                !.fb.shot_counter = data.shot_number,
                !.rtc = AddShotEvent(w.rtc, actual_shot_timestamp * TicksPerMs,
                                     data.shot_number)]
    ELSE w

TimedOutNever(b) == FALSE

\* line 281: the polling loop has run past its timeout.
TimedOut(b) == b.now - b.start_time > CalibrationTimeoutMs

\* lines 286-322: the loop has ended; with enough samples the baseline is
\* their per-axis mean, the shot detector is built and the calibration is
\* complete, with the handler switch of lines 337-338 still to come.
FinishCalibration(w) ==
    LET samples == w.fb.calibration_samples
        n == Len(samples)
        axis(a) == [k \in 1..n |-> samples[k][a]]
        baseline_x == TruncDiv(SumSeq(axis(1)), n)
    IN  IF n < CALIBRATION_SAMPLES
        THEN [w EXCEPT !.fb.pc = "failed"]
        ELSE [w EXCEPT
                !.fb.baseline_x = baseline_x,
                !.fb.baseline_y = TruncDiv(SumSeq(axis(2)), n),
                !.fb.baseline_z = TruncDiv(SumSeq(axis(3)), n),
                !.sd = InitShotDetector(baseline_x),
                !.fb.calibration_complete = TRUE,
                !.fb.pc = "stop_notify"]

\* lines 277-284: one asyncio.sleep(0.1) returns at wake_time; the timeout is
\* looked at first, the loop condition after it.  The locals of the call are
\* gone when it leaves the loop.
CalibrationWake(w, wake_time) ==
    LET w1 == [w EXCEPT !.fb.now = wake_time, !.fb.polls = @ + 1]
        w2 == IF TimedOut(w1.fb)
              THEN [w1 EXCEPT !.fb.pc = "failed"]
              ELSE IF w1.fb.collecting_calibration
              THEN w1
              ELSE FinishCalibration(w1)
    IN  IF w2.fb.pc = "polling"
        THEN w2
        ELSE [w2 EXCEPT !.fb.start_time = 0, !.fb.polls = 0]

\* ---- actions of the bridge ----

World == [fb |-> fb, sd |-> sd, eid |-> eid, rtc |-> rtc]

Becomes(w) == fb' = w.fb /\ sd' = w.sd /\ eid' = w.eid /\ rtc' = w.rtc

\* connect_devices, lines 777-786: the timer is connected and its handler
\* registered, or the attempt fails and is logged.
ConnectAmg ==
    /\ fb.pc = "connect_amg"
    /\ \E ok \in BOOLEAN :
          fb' = [fb EXCEPT !.amg_handler = ok, !.pc = "connect_bt50"]
    /\ UNCHANGED <<rtc, hd, eid, sd, mpd, par, tc>>

\* connect_devices, lines 788-800, and perform_startup_calibration up to its
\* polling loop: the sensor is connected, the samples are reset and the
\* calibration handler is registered; either BLE call may fail.
StartCalibration ==
    /\ fb.pc = "connect_bt50"
    /\ \E outcome \in {"ok", "connect_failed", "notify_failed"} :
          fb' = IF outcome = "connect_failed"
                THEN [fb EXCEPT !.pc = "failed"]
                ELSE IF outcome = "notify_failed"
                THEN [fb EXCEPT !.now = @ + StabilizeMs,
                                !.calibration_samples = <<>>,
                                !.collecting_calibration = TRUE,
                                !.pc = "failed"]
                ELSE [fb EXCEPT !.now = @ + StabilizeMs,
                                !.calibration_samples = <<>>,
                                !.collecting_calibration = TRUE,
                                !.bt50_handler = "calibration",
                                !.start_time = fb.now + StabilizeMs,
                                !.pc = "polling"]
    /\ UNCHANGED <<rtc, hd, eid, sd, mpd, par, tc>>

\* The polling loop wakes from one sleep.
WakeCalibration ==
    /\ fb.pc = "polling"
    /\ fb.polls < MaxPolls
    /\ \E sleep \in PollSleepMs :
          LET wake_time == fb.now + sleep
              w == CalibrationWake(World, wake_time)
              late == /\ wake_time - fb.start_time > CalibrationTimeoutMs
                      /\ Len(fb.calibration_samples) < CALIBRATION_SAMPLES
          IN  Becomes([w EXCEPT !.fb.deadline_missed = @ \/ late])
    /\ UNCHANGED <<hd, mpd, par, tc>>

\* line 337: stop_notify, which may fail (lines 345-348).
StopNotify ==
    /\ fb.pc = "stop_notify"
    /\ \E ok \in BOOLEAN :
          fb' = IF ok
                THEN [fb EXCEPT !.bt50_handler = "none", !.pc = "start_notify"]
                ELSE [fb EXCEPT !.pc = "failed"]
    /\ UNCHANGED <<rtc, hd, eid, sd, mpd, par, tc>>

\* line 338: start_notify with the detection handler, which may fail.
StartNotify ==
    /\ fb.pc = "start_notify"
    /\ \E ok \in BOOLEAN :
          fb' = IF ok
                THEN [fb EXCEPT !.bt50_handler = "bt50", !.pc = "ready"]
                ELSE [fb EXCEPT !.pc = "failed"]
    /\ UNCHANGED <<rtc, hd, eid, sd, mpd, par, tc>>

\* The sensor notifies while the calibration handler is registered.
Bt50NotifyCalibration ==
    /\ fb.bt50_handler = "calibration"
    /\ \E k \in FrameCounts, raw \in CalibrationReadings :
          LET w == CalibrationNotificationHandler(World, Payload5561(k, raw))
              in_time == /\ fb.pc = "polling"
                         /\ fb.collecting_calibration
                         /\ ~w.fb.collecting_calibration
                         /\ Len(w.fb.calibration_samples) >= CALIBRATION_SAMPLES
                         /\ fb.now - fb.start_time <= CalibrationTimeoutMs
          IN  Becomes([w EXCEPT !.fb.collected_in_time = @ \/ in_time])
    /\ UNCHANGED <<hd, mpd, par, tc>>

\* The sensor notifies while the detection handler is registered, one sample
\* interval after the notification before.
Bt50NotifyDetection ==
    /\ fb.bt50_handler = "bt50"
    /\ fb.n_detect < MaxDetectNotifications
    /\ \E k \in DetectionFrameCounts, raw \in DetectionReadings :
          LET w == [World EXCEPT !.fb.now = @ + SampleStepMs,
                                 !.fb.n_detect = @ + 1,
                                 !.fb.last_decoded =
                                     LET samples == Parse5561(Payload5561(k, raw))
                                     IN  [j \in 1..Len(samples) |-> samples[j].raw]]
          IN  Becomes(Bt50NotificationHandler(w, Payload5561(k, raw)))
    /\ UNCHANGED <<hd, mpd, par, tc>>

\* The kind of a timer frame, by its first two bytes.
AmgKind(data) ==
    IF data.len < 2 \/ data.header # 1 THEN "other"
    ELSE IF data.type = 5 THEN "start"
    ELSE IF data.type = 3 THEN "shot"
    ELSE IF data.type = 8 THEN "stop"
    ELSE "other"

\* The handler is called with a timer frame.  The history fields keep what
\* it was given, the timestamp it handed to add_shot_event (None when it
\* handed none) and the fields it left behind.
AmgDelivery(w0, data) ==
    LET w == AmgNotificationHandler(w0, data)
        kind == AmgKind(data)
    IN  [w EXCEPT
            !.fb.string_open = IF kind = "start" THEN TRUE
                               ELSE IF kind = "stop" THEN FALSE
                               ELSE @,
            !.fb.last_amg =
                [kind |-> kind,
                 data |-> data,
                 receipt |-> w0.fb.now,
                 string_open |-> w0.fb.string_open,
                 start_beep_time |-> w0.fb.start_beep_time,
                 given |-> IF w.rtc.n_shots > w0.rtc.n_shots
                           THEN w.rtc.shot_clock \div TicksPerMs
                           ELSE None,
                 left |-> [start_beep_time |-> w.fb.start_beep_time,
                           shot_counter |-> w.fb.shot_counter,
                           impact_counter |-> w.fb.impact_counter]]]

\* The timer notifies.
AmgNotify ==
    /\ fb.amg_handler
    /\ fb.n_amg < MaxAmgNotifications
    /\ \E data \in AmgFrames :
          Becomes(AmgDelivery([World EXCEPT !.fb.n_amg = @ + 1], data))
    /\ UNCHANGED <<hd, mpd, par, tc>>

\* ---- a string on the timer ----

\* The timer alone: a few frames, a tenth of a second or more apart.
MaxTimerNotifications == 4
TimerStepsMs == {100, 700}

\* The bridge after connect_devices registered the timer's handler (line 783).
InitTimerConnected == [InitBridge EXCEPT !.amg_handler = TRUE, !.pc = "connect_bt50"]

\* The timer notifies, some time after its last notification.
TimerNotify ==
    /\ fb.amg_handler
    /\ fb.n_amg < MaxTimerNotifications
    /\ \E data \in AmgFrames, step \in TimerStepsMs :
          Becomes(AmgDelivery([World EXCEPT !.fb.n_amg = @ + 1,
                                            !.fb.now = @ + step], data))
    /\ UNCHANGED <<hd, mpd, par, tc>>

NextTimer == TimerNotify \/ Correlate

NextBridge ==
    \/ ConnectAmg
    \/ StartCalibration
    \/ WakeCalibration
    \/ StopNotify
    \/ StartNotify
    \/ Bt50NotifyCalibration
    \/ Bt50NotifyDetection
    \/ AmgNotify
    \/ Correlate

(***************************************************************************)
(*                       parse_amg_timer_data                              *)
(* A frame is a sequence of bytes (0..255).  Times are kept in hundredths  *)
(* of a second: the float the code returns is that number / 100.0.         *)
(***************************************************************************)

AmgFrameBytes == 14

ParseNone == [kind |-> "None"]      \* the parser returns None
NoParse ==
    [fn |-> "none", layout |-> "none", data |-> <<>>, readings |-> <<>>,
     result |-> ParseNone, max_read |-> 0, done |-> FALSE]

RECURSIVE BitOr(_, _)
\* a | b on non-negative integers
BitOr(a, b) ==
    IF a = 0 THEN b
    ELSE IF b = 0 THEN a
    ELSE (IF a % 2 = 1 \/ b % 2 = 1 THEN 1 ELSE 0) + 2 * BitOr(a \div 2, b \div 2)

\* a << 8
ShiftLeft8(a) == a * 256

ConvertTimeBytesLittleEndian(byte1, byte2) == BitOr(ShiftLeft8(byte2), byte1)

\* convert_time_bytes, in hundredths of a second
ConvertTimeBytes(byte1, byte2) ==
    LET value == BitOr(ShiftLeft8(byte1), byte2)
    IN  IF byte2 < 0 THEN value + 256 ELSE value

\* lines 62-66: ShotState(shot_state_raw).name, ACTIVE when the code is not
\* one of the enumeration.
ShotStateName(shot_state_raw) ==
    IF shot_state_raw = 3 THEN "ACTIVE"
    ELSE IF shot_state_raw = 5 THEN "START"
    ELSE IF shot_state_raw = 8 THEN "STOPPED"
    ELSE "ACTIVE"

\* lines 82-94: which event_detail text is built
EventDetail(type_id, shot_state_raw) ==
    LET shot_state == ShotStateName(shot_state_raw)
    IN  IF shot_state = "START" THEN "Timer Started"
        ELSE IF shot_state = "STOPPED" THEN "Timer Stopped"
        ELSE IF type_id = 1 /\ shot_state_raw = 3 THEN "Shot"
        ELSE IF 10 <= type_id /\ type_id <= 26 THEN "Shot Sequence"
        ELSE "Timer Active"

\* lines 53-113: the fields decoded from a frame of at least 14 bytes
DecodeAmgFrame(bytes_list) ==
    [kind |-> "AmgTimerData",
     type_id |-> bytes_list[1],
     shot_state |-> ShotStateName(bytes_list[2]),
     shot_state_raw |-> bytes_list[2],
     current_shot |-> bytes_list[3],
     total_shots |-> bytes_list[4],
     current_time |-> ConvertTimeBytes(bytes_list[5], bytes_list[6]),
     split_time |-> ConvertTimeBytes(bytes_list[7], bytes_list[8]),
     first_shot_time |-> ConvertTimeBytes(bytes_list[9], bytes_list[10]),
     second_shot_time |-> ConvertTimeBytes(bytes_list[11], bytes_list[12]),
     current_round |-> BitOr(ShiftLeft8(bytes_list[13]), bytes_list[14]),
     event_type |-> "String",
     event_detail |-> EventDetail(bytes_list[1], bytes_list[2]),
     raw |-> bytes_list]

\* parse_amg_timer_data that fills a short input up with zero bytes.
ParseAmgTimerDataPadded(data) ==
    DecodeAmgFrame([k \in 1..Max2(Len(data), AmgFrameBytes) |->
                       IF k <= Len(data) THEN data[k] ELSE 0])

\* parse_amg_timer_data
ParseAmgTimerData(data) ==
    IF Len(data) < AmgFrameBytes THEN ParseNone ELSE DecodeAmgFrame(data)

\* The frame of the documentation: 01 03 05 00 01 2C 00 00 00 00 00 00 00 00
ExampleAmgFrame == <<1, 3, 5, 0, 1, 44, 0, 0, 0, 0, 0, 0, 0, 0>>

\* Timer frames of 14 bytes, field by field, and what is left of them when
\* the notification is cut short.
AmgFullFrames ==
    {<<type_id, state, shot, 0, cur[1], cur[2], split[1], split[2],
       first[1], first[2], 0, second, round[1], round[2]>> :
        type_id \in {1, 16}, state \in {3, 5, 8, 0, 255}, shot \in {0, 5},
        cur \in {<<1, 44>>, <<255, 255>>, <<0, 0>>}, split \in {<<0, 0>>, <<2, 1>>},
        first \in {<<0, 0>>, <<128, 0>>}, second \in {0, 7},
        round \in {<<0, 0>>, <<1, 2>>}}

AmgCutLengths == {0, 1, 2, 13, 14}

AmgInputs == {SubSeq(f, 1, n) : f \in AmgFullFrames, n \in AmgCutLengths}

\* One call of parse_amg_timer_data on the input drawn at the start.
ParseAmgCall ==
    /\ par.fn = "parse_amg_timer_data"
    /\ ~par.done
    /\ par' = [par EXCEPT !.result = ParseAmgTimerData(par.data), !.done = TRUE]
    /\ UNCHANGED <<rtc, hd, eid, sd, fb, mpd, tc>>

\* ---- parse_5561 on well-formed notifications ----

MaxFrames == 3      \* sub-frames in one notification

\* Signed 16-bit values: the ends of the range, values around zero, a reading
\* at rest, and the value whose two bytes are the marker 0x55 0x61.
Int16Values == {-32768, -1, 0, 1, 2000, 24917, 32767}

\* Readings for the notifications of several sub-frames.
FrameReadings == {RestReading, <<-1, 24917, 5>>, <<-32768, 32767, 0>>}

\* The notifications: one sub-frame of any triple, or up to MaxFrames
\* sub-frames of the readings above.
ReadingSequences ==
    {<<<<x, y, z>>>> : x \in Int16Values, y \in Int16Values, z \in Int16Values}
    \cup UNION {[1..k -> FrameReadings] : k \in 2..MaxFrames}

RECURSIVE PayloadOf(_)
\* The sub-frames of the readings, back to back.
PayloadOf(readings) ==
    IF readings = <<>> THEN <<>>
    ELSE Frame5561(Head(readings)) \o PayloadOf(Tail(readings))

\* ---- parse_5561 on the frames of tests/test_wtvb_parse.py ----

\* make_frame: the marker followed at once by the three values.
MakeFrame(raw) == <<85, 97>> \o BytesLe(raw[1]) \o BytesLe(raw[2]) \o BytesLe(raw[3])

\* The values of the tests, in payloads of one to four frames.
TestReadings == {<<1000, -1000, 0>>, <<500, 500, 500>>, <<-500, -500, -500>>}
TestReadingSequences == UNION {[1..k -> TestReadings] : k \in 1..4}

RECURSIVE TestPayloadOf(_)
TestPayloadOf(readings) ==
    IF readings = <<>> THEN <<>>
    ELSE MakeFrame(Head(readings)) \o TestPayloadOf(Tail(readings))

\* ---- parse_5561 on payloads of any length and content ----

\* Payloads cut at every kind of place: bytes before the first marker, one or
\* two sub-frames, cut short before, inside and after a marker; and payloads
\* without a marker.
JunkPrefixes == {<<>>, <<0>>, <<85>>, <<85, 0>>, <<97, 85>>}
CutLengths == {0, 1, 31, 32, 33, 34, 35, 59, 60, 61, 62, 63, 64, 65, 66}
AnyPayloads ==
    {SubSeq(junk \o PayloadOf(readings), 1, Min2(n, Len(junk \o PayloadOf(readings)))) :
        junk \in JunkPrefixes,
        readings \in UNION {[1..k -> FrameReadings] : k \in 1..2},
        n \in CutLengths}
    \cup {[k \in 1..n |-> b] : n \in {32, 40}, b \in {0, 85, 97}}

\* One call of parse_5561 on the input drawn at the start.
Parse5561Call ==
    /\ par.fn = "parse_5561"
    /\ ~par.done
    /\ par' = [par EXCEPT !.result = Parse5561(par.data),
                          !.max_read = Parse5561Reads(par.data),
                          !.done = TRUE]
    /\ UNCHANGED <<rtc, hd, eid, sd, fb, mpd, tc>>

NextParsers == ParseAmgCall \/ Parse5561Call

\* ---- the calls on the calibration file ----

\* One call of TimingCalibration.from_file on the file drawn at the start.
FromFileCall ==
    /\ par.fn = "from_file" /\ ~par.done
    /\ par' = [par EXCEPT !.result = FromFile(par.data), !.done = TRUE]
    /\ UNCHANGED <<rtc, hd, eid, sd, fb, mpd, tc>>

\* cal.save_to_file(path) followed by TimingCalibration.from_file(path), for
\* the calibration drawn at the start; the write succeeds.
SaveThenLoadCall ==
    /\ par.fn = "save_to_file" /\ ~par.done
    /\ par' = [par EXCEPT !.data = WrittenFile(par.readings),
                          !.result = FromFile(WrittenFile(par.readings)),
                          !.done = TRUE]
    /\ UNCHANGED <<rtc, hd, eid, sd, fb, mpd, tc>>

\* The delays _calculate_confidence is asked about: from 0 to beyond twice the
\* tolerance past the expected delay.
ConfidenceDelays(cal) == 0..(cal.expected_delay_ms + 2 * cal.delay_tolerance_ms + 10)

\* One call of _calculate_confidence(delay_ms) under the calibration drawn at
\* the start.
ConfidenceCall ==
    /\ par.fn = "_calculate_confidence" /\ ~par.done
    /\ par' = [par EXCEPT !.result = CalculateConfidence(par.data.calibration,
                                                          par.data.delay_ms),
                          !.done = TRUE]
    /\ UNCHANGED <<rtc, hd, eid, sd, fb, mpd, tc>>

NextCalibrationFile == FromFileCall \/ SaveThenLoadCall \/ ConfidenceCall

(***************************************************************************)
(*                          TimingCorrelator                               *)
(***************************************************************************)

\* ---- bounds of the model ----
MaxCorrelatorShots == 5         \* process_shot_event calls in one behaviour
MaxCorrelatorImpacts == 5       \* process_impact_event calls that pass the filter

\* ---- program constants; magnitudes are in thousandths of 1 g ----
CorrelatorWindowMs == 1000
CorrelatorExpectedDelayMs == 450
CorrelatorToleranceMs == 200
CorrelatorMinMagnitude == 100
MilliG == 1000
ShotEventsMaxLen == 50
ImpactEventsMaxLen == 200
CorrelationsMaxLen == 100
min_correlations_for_learning == 5
RecentCorrelations == 10
ExpectedDelayStepMs == 50
WindowStepMs == 100

\* TimingCorrelator.__init__ with an empty config.
InitTimingCorrelator ==
    [correlation_window_ms |-> CorrelatorWindowMs,
     expected_delay_ms |-> CorrelatorExpectedDelayMs,
     delay_tolerance_ms |-> CorrelatorToleranceMs,
     min_magnitude |-> CorrelatorMinMagnitude,
     shot_events |-> <<>>,
     impact_events |-> <<>>,
     correlations |-> <<>>,
     learning_mode |-> TRUE,
     shots_received |-> 0,
     impacts_received |-> 0,
     pairs_correlated |-> 0,
     shot_clock |-> 0,      \* the latest timestamp of each of the two streams
     impact_clock |-> 0,
     registered |-> <<>>]   \* history: every pair ever registered

\* _calculate_confidence: 0.7 * timing + 0.3 * magnitude, as the exact
\* fraction num/den.
TimingConfidence(c, delay_ms, magnitude) ==
    LET timing_diff == Abs(delay_ms - c.expected_delay_ms)
    IN  [num |-> 7 * MilliG * Max2(0, c.delay_tolerance_ms - timing_diff)
                   + 3 * Min2(MilliG, magnitude) * c.delay_tolerance_ms,
         den |-> 10 * MilliG * c.delay_tolerance_ms]

\* confidence > 0.5
AboveHalf(confidence) == 2 * confidence.num > confidence.den

\* int(statistics.stdev(delays) * 2)
TwiceStdev(delays) ==
    LET n == Len(delays)
        sum == SumSeq(delays)
        squares == SumSeq([k \in 1..n |-> delays[k] * delays[k]])
        scaled == 4 * (n * squares - sum * sum)
    IN  CHOOSE k \in 0..(2 * MaxSeq(delays) + 1) :
            /\ k * k * n * (n - 1) <= scaled
            /\ (k + 1) * (k + 1) * n * (n - 1) > scaled

\* _update_timing_parameters
UpdateTimingParameters(c) ==
    IF Len(c.correlations) < 3 THEN c
    ELSE
    LET recent_correlations == LastN(c.correlations, RecentCorrelations)
        recent_delays == [k \in 1..Len(recent_correlations) |->
                             recent_correlations[k].delay_ms]
        new_expected_delay == SumSeq(recent_delays) \div Len(recent_delays)
        new_tolerance == IF Len(recent_delays) > 1 THEN TwiceStdev(recent_delays)
                         ELSE c.delay_tolerance_ms
        new_window == new_expected_delay + new_tolerance * 2
        c1 == IF Abs(new_expected_delay - c.expected_delay_ms) > ExpectedDelayStepMs
              THEN [c EXCEPT !.expected_delay_ms = new_expected_delay]
              ELSE c
    IN  IF Abs(new_window - c.correlation_window_ms) > WindowStepMs
        THEN [c1 EXCEPT !.correlation_window_ms = new_window]
        ELSE c1

\* _register_correlation
RegisterCorrelation(c, correlation) ==
    LET c1 == [c EXCEPT !.correlations = LastN(Append(@, correlation), CorrelationsMaxLen),
                        !.pairs_correlated = @ + 1,
                        !.registered = Append(@, correlation)]
    IN  IF c1.learning_mode /\ Len(c1.correlations) >= min_correlations_for_learning
        THEN UpdateTimingParameters(c1)
        ELSE c1

\* The pair of the shot at index i and the impact at index j of the buffers.
PairOf(c, i, j, direction) ==
    LET delay_ms == (c.impact_events[j].timestamp - c.shot_events[i].timestamp)
                        \div TicksPerMs
    IN  [shot |-> c.shot_events[i].id, impact |-> c.impact_events[j].id,
         delay_ms |-> delay_ms,
         confidence |-> TimingConfidence(c, delay_ms, c.impact_events[j].magnitude),
         direction |-> direction]

\* The marking of both events and the registration of the pair.
MarkAndRegister(c, i, j, direction) ==
    RegisterCorrelation([c EXCEPT !.shot_events[i].correlated = TRUE,
                                  !.impact_events[j].correlated = TRUE],
                        PairOf(c, i, j, direction))

RECURSIVE FirstImpactAnyFor(_, _, _)
\* The loop of _correlate_shot without the test of the correlated mark.
FirstImpactAnyFor(c, i, j) ==
    IF j = 0 THEN 0
    ELSE
    LET shot_event == c.shot_events[i]
        impact == c.impact_events[j]
        window_end == shot_event.timestamp + c.correlation_window_ms * TicksPerMs
    IN  IF impact.timestamp < shot_event.timestamp THEN FirstImpactAnyFor(c, i, j - 1)
        ELSE IF impact.timestamp > window_end THEN FirstImpactAnyFor(c, i, j - 1)
        ELSE IF AboveHalf(PairOf(c, i, j, "shot").confidence) THEN j
        ELSE FirstImpactAnyFor(c, i, j - 1)

RECURSIVE FirstImpactFor(_, _, _)
\* The loop of _correlate_shot over reversed(impact_events) from index j
\* down: the index of the first impact that is taken, 0 if none.
FirstImpactFor(c, i, j) ==
    IF j = 0 THEN 0
    ELSE
    LET shot_event == c.shot_events[i]
        impact == c.impact_events[j]
        window_end == shot_event.timestamp + c.correlation_window_ms * TicksPerMs
    IN  IF impact.timestamp < shot_event.timestamp THEN FirstImpactFor(c, i, j - 1)
        ELSE IF impact.timestamp > window_end THEN FirstImpactFor(c, i, j - 1)
        ELSE IF impact.correlated THEN FirstImpactFor(c, i, j - 1)
        ELSE IF AboveHalf(PairOf(c, i, j, "shot").confidence) THEN j
        ELSE FirstImpactFor(c, i, j - 1)

\* _correlate_shot for the shot at index i.
CorrelateShotEvent(c, i) ==
    LET j == FirstImpactFor(c, i, Len(c.impact_events))
    IN  IF j = 0 THEN c ELSE MarkAndRegister(c, i, j, "shot")

RECURSIVE BestShotFor(_, _, _, _)
\* The loop of _correlate_impact over reversed(shot_events) from index i
\* down: the index of the shot of best_correlation, 0 for None.
BestShotFor(c, j, i, best) ==
    IF i = 0 THEN best
    ELSE
    LET impact_event == c.impact_events[j]
        shot == c.shot_events[i]
        window_start == impact_event.timestamp - c.correlation_window_ms * TicksPerMs
        confidence == PairOf(c, i, j, "impact").confidence
        \* both fractions have the denominator 10 * MilliG * delay_tolerance_ms
        best_confidence == IF best = 0 THEN [num |-> 0, den |-> confidence.den]
                           ELSE PairOf(c, best, j, "impact").confidence
    IN  IF shot.timestamp > impact_event.timestamp THEN BestShotFor(c, j, i - 1, best)
        ELSE IF shot.timestamp < window_start THEN best
        ELSE IF shot.correlated THEN BestShotFor(c, j, i - 1, best)
        ELSE IF confidence.num > best_confidence.num /\ AboveHalf(confidence)
        THEN BestShotFor(c, j, i - 1, i)
        ELSE BestShotFor(c, j, i - 1, best)

\* _correlate_impact for the impact at index j.
CorrelateImpactEvent(c, j) ==
    LET i == BestShotFor(c, j, Len(c.shot_events), 0)
    IN  IF i = 0 THEN c ELSE MarkAndRegister(c, i, j, "impact")

\* process_shot_event
ProcessShotEvent(c, timestamp) ==
    LET shot_event == [id |-> c.shots_received + 1, timestamp |-> timestamp,
                       correlated |-> FALSE]
        c1 == [c EXCEPT !.shot_events = LastN(Append(@, shot_event), ShotEventsMaxLen),
                        !.shots_received = @ + 1,
                        !.shot_clock = timestamp]
    IN  CorrelateShotEvent(c1, Len(c1.shot_events))

\* process_impact_event
ProcessImpactEvent(c, timestamp, magnitude) ==
    IF magnitude < c.min_magnitude THEN c
    ELSE
    LET impact_event == [id |-> c.impacts_received + 1, timestamp |-> timestamp,
                         magnitude |-> magnitude, correlated |-> FALSE]
        c1 == [c EXCEPT !.impact_events =
                            LastN(Append(@, impact_event), ImpactEventsMaxLen),
                        !.impacts_received = @ + 1,
                        !.impact_clock = timestamp]
    IN  CorrelateImpactEvent(c1, Len(c1.impact_events))

\* Inputs: timestamps in ticks (shots at 0 and 100 ms, impacts at 450 and
\* 500.5 ms) and magnitudes of 0.05 g, 0.5 g and 2 g.
CorrelatorShotTimes == {0, 200}
CorrelatorImpactTimes == {900, 1001}
CorrelatorMagnitudes == {50, 500, 2000}

\* ---- actions of the correlator ----

\* A caller awaits process_shot_event; the timestamps of a stream never go back.
ShotEventCall ==
    /\ tc.shots_received < MaxCorrelatorShots
    /\ \E t \in CorrelatorShotTimes :
          /\ t >= tc.shot_clock
          /\ tc' = ProcessShotEvent(tc, t)
    /\ UNCHANGED <<rtc, hd, eid, sd, fb, mpd, par>>

\* A caller awaits process_impact_event.
ImpactEventCall ==
    /\ tc.impacts_received < MaxCorrelatorImpacts
    /\ \E t \in CorrelatorImpactTimes, m \in CorrelatorMagnitudes :
          /\ t >= tc.impact_clock
          /\ tc' = ProcessImpactEvent(tc, t, m)
    /\ UNCHANGED <<rtc, hd, eid, sd, fb, mpd, par>>

NextCorrelator == ShotEventCall \/ ImpactEventCall

(***************************************************************************)
(*                          Specifications                                 *)
(***************************************************************************)

\* The state after construction; each specification below lets one object run
\* and leaves the others as constructed.
InitCalibratorAny == \E cal \in LoadableCalibrations : rtc = InitCalibrator(cal)
InitCalibratorDefault == rtc = InitCalibrator(DefaultCalibration)
InitHitDetectorAny == \E params \in DetectorParamSets : hd = InitHitDetector(params)
InitHitDetectorDefault == hd = InitHitDetector(TestParams)

InitCal ==
    /\ InitCalibratorAny /\ InitHitDetectorDefault
    /\ eid = InitOnsetDetector /\ sd = NoShotDetector /\ fb = InitBridge
    /\ mpd = InitMultiPlate(TestParams) /\ tc = InitTimingCorrelator
    /\ par = NoParse
SpecCalibrator == InitCal /\ [][NextCalibrator]_vars

\* The correlator built without a calibration file, in the session above.
InitLearning ==
    /\ InitCalibratorDefault /\ InitHitDetectorDefault
    /\ eid = InitOnsetDetector /\ sd = NoShotDetector
    /\ fb = InitBridge /\ mpd = InitMultiPlate(TestParams) /\ tc = InitTimingCorrelator /\ par = NoParse
SpecLearning == InitLearning /\ [][NextLearning]_vars

InitHit ==
    /\ InitCalibratorDefault /\ InitHitDetectorAny
    /\ eid = InitOnsetDetector /\ sd = NoShotDetector /\ fb = InitBridge
    /\ mpd = InitMultiPlate(TestParams) /\ tc = InitTimingCorrelator
    /\ par = NoParse
SpecHitDetector == InitHit /\ [][NextHitDetector]_vars

Init ==
    /\ InitCalibratorDefault /\ InitHitDetectorDefault
    /\ eid = InitOnsetDetector /\ sd = NoShotDetector /\ fb = InitBridge
    /\ mpd = InitMultiPlate(TestParams) /\ tc = InitTimingCorrelator
    /\ par = NoParse
SpecOnset == Init /\ [][NextOnsetDetector]_vars

SpecBridge == Init /\ [][NextBridge]_vars

\* The bridge with the timer connected, before the sensor is.
InitTimer ==
    /\ InitCalibratorDefault /\ InitHitDetectorDefault
    /\ eid = InitOnsetDetector /\ sd = NoShotDetector /\ fb = InitTimerConnected
    /\ mpd = InitMultiPlate(TestParams) /\ tc = InitTimingCorrelator
    /\ par = NoParse
SpecTimer == InitTimer /\ [][NextTimer]_vars

\* A ShotDetector built as FixedBridge builds it, fed on its own.
InitShot ==
    /\ InitCalibratorDefault /\ InitHitDetectorDefault
    /\ eid = InitOnsetDetector /\ sd = InitShotDetector(DefaultBaselineX) /\ fb = InitBridge
    /\ mpd = InitMultiPlate(TestParams) /\ tc = InitTimingCorrelator
    /\ par = NoParse
SpecShot == InitShot /\ [][NextShotDetector]_vars

SpecMultiPlate == Init /\ [][NextMultiPlate]_vars

\* One parser call on an input drawn from the bounded sets.
InitParsers ==
    /\ InitCalibratorDefault /\ InitHitDetectorDefault
    /\ eid = InitOnsetDetector /\ sd = NoShotDetector /\ fb = InitBridge
    /\ mpd = InitMultiPlate(TestParams) /\ tc = InitTimingCorrelator
    /\ \/ \E data \in AmgInputs :
             par = [NoParse EXCEPT !.fn = "parse_amg_timer_data", !.layout = "timer",
                                   !.data = data]
       \/ \E readings \in ReadingSequences :
             par = [NoParse EXCEPT !.fn = "parse_5561", !.layout = "sensor",
                                   !.data = PayloadOf(readings), !.readings = readings]
       \/ \E readings \in TestReadingSequences :
             par = [NoParse EXCEPT !.fn = "parse_5561", !.layout = "test",
                                   !.data = TestPayloadOf(readings), !.readings = readings]
       \/ \E data \in AnyPayloads :
             par = [NoParse EXCEPT !.fn = "parse_5561", !.layout = "any", !.data = data]
SpecParsers == InitParsers /\ [][NextParsers]_vars

\* The calls on the calibration file: a file to load, or a calibration to
\* save and load again.
InitCalibrationFile ==
    /\ InitCalibratorDefault /\ InitHitDetectorDefault
    /\ eid = InitOnsetDetector /\ sd = NoShotDetector
    /\ fb = InitBridge /\ mpd = InitMultiPlate(TestParams) /\ tc = InitTimingCorrelator
    /\ \/ \E file \in CalibrationFiles :
             par = [NoParse EXCEPT !.fn = "from_file", !.layout = "file", !.data = file]
       \/ \E cal \in SavableCalibrations :
             par = [NoParse EXCEPT !.fn = "save_to_file", !.layout = "file",
                                   !.readings = cal]
       \/ \E cal \in LoadableCalibrations : \E delay_ms \in ConfidenceDelays(cal) :
             par = [NoParse EXCEPT !.fn = "_calculate_confidence", !.layout = "delay",
                                   !.data = [calibration |-> cal, delay_ms |-> delay_ms]]
SpecCalibrationFile == InitCalibrationFile /\ [][NextCalibrationFile]_vars

\* The TimingCorrelator alone.
SpecCorrelator == Init /\ [][NextCorrelator]_vars

\* Every object running side by side.
Next ==
    \/ NextCalibrator \/ NextHitDetector \/ NextOnsetDetector \/ NextBridge
    \/ NextMultiPlate \/ NextParsers \/ NextCorrelator
Spec == Init /\ [][Next]_vars

(***************************************************************************)
(*                  Claims about the correlator                            *)
(***************************************************************************)

ShotIds(shots) == {shots[k].id : k \in 1..Len(shots)}
ImpactIds(impacts) == {impacts[k].id : k \in 1..Len(impacts)}

\* C1: no inserted shot and no inserted impact ever appears in two different
\* CorrelatedPairs appended to correlated_pairs.
C1_NoEventInTwoPairs ==
    \A i, j \in 1..Len(rtc.appended) :
        i < j => /\ rtc.appended[i].pair.shot.id # rtc.appended[j].pair.shot.id
                 /\ rtc.appended[i].pair.impact.id # rtc.appended[j].pair.impact.id

\* C2: a pass in which the write of the calibration file failed has still run
\* to completion: the shot and the impact of every pair it accepted are gone
\* from the pending queues.
C2_WriteFailureKeepsOperating ==
    (rtc.last_pass.ran /\ rtc.last_pass.raised) =>
        \A k \in 1..Len(rtc.last_pass.new_pairs) :
            /\ rtc.last_pass.new_pairs[k].shot.id \notin ShotIds(rtc.pending_shots)
            /\ rtc.last_pass.new_pairs[k].impact.id \notin ImpactIds(rtc.pending_impacts)

\* C3: every pair appended to correlated_pairs satisfies, with the calibration
\* in force when it was accepted, 0 <= delay_ms <= correlation_window_ms,
\* impact.magnitude >= minimum_magnitude and
\* |delay_ms - expected_delay_ms| <= delay_tolerance_ms.
C3_AppendedPairsValid ==
    \A k \in 1..Len(rtc.appended) :
        LET p == rtc.appended[k].pair
            cal == rtc.appended[k].calibration
        IN  /\ 0 <= p.delay_ms
            /\ p.delay_ms <= cal.correlation_window_ms
            /\ p.impact.magnitude >= cal.minimum_magnitude
            /\ p.delay_ms - cal.expected_delay_ms <= cal.delay_tolerance_ms
            /\ cal.expected_delay_ms - p.delay_ms <= cal.delay_tolerance_ms

\* A pair was accepted under a calibration the learning step has since changed.
C3_Witness ==
    /\ Len(rtc.appended) >= 1
    /\ rtc.appended[1].calibration.expected_delay_ms # rtc.calibration.expected_delay_ms

\* The worked example: expected 100 ms, window 1000 ms, tolerance 50 ms; a shot
\* at t = 0, then an impact at t = 120 ms of sufficient magnitude, nothing else
\* handed in, and every scheduled pass has run.
ExampleRun ==
    /\ rtc.calibration = ExampleCalibration
    /\ rtc.first = "shot"
    /\ rtc.n_shots = 1 /\ rtc.shot_clock = 0
    /\ rtc.n_impacts = 1 /\ rtc.impact_clock = 120 * TicksPerMs
    /\ rtc.tasks = 0

\* C4: the worked example ends with exactly one CorrelatedPair, of delay_ms 120
\* and confidence in [0.5, 1.0], and with neither event left pending.
C4_ExampleOnePair ==
    ExampleRun =>
        /\ Len(rtc.appended) = 1
        /\ Len(rtc.correlated_pairs) = 1
        /\ rtc.correlated_pairs[1].delay_ms = 120
        /\ 2 * rtc.correlated_pairs[1].confidence.num >= rtc.correlated_pairs[1].confidence.den
        /\ rtc.correlated_pairs[1].confidence.num <= rtc.correlated_pairs[1].confidence.den
        /\ rtc.pending_shots = <<>>
        /\ rtc.pending_impacts = <<>>

C4_Witness == ExampleRun /\ Len(rtc.correlated_pairs) = 1

(***************************************************************************)
(*                  Claims about the envelope hit detector                 *)
(***************************************************************************)

\* C5: of two HitEvents emitted one after the other, the second's trigger
\* starts at least dead_time_ms after the first's release; and no trigger
\* starts less than dead_time_ms after the last emitted event.
C5_DeadTimeBetweenEvents ==
    /\ \A k \in 1..(Len(hd.events) - 1) :
          hd.events[k + 1].trigger_start_ns - hd.events[k].release_ns
              >= hd.params.dead_time_ms * NsPerMs
    /\ (hd.triggered /\ hd.last_hit_ns # None) =>
          hd.trigger_start_ns - hd.last_hit_ns >= hd.params.dead_time_ms * NsPerMs

\* Two events have been emitted, and a sample inside the dead time after the
\* second one has been turned away although it was high enough to trigger.
C5_Witness ==
    /\ Len(hd.events) >= 2
    /\ ~hd.triggered
    /\ hd.now - hd.last_hit_ns < hd.params.dead_time_ms * NsPerMs
    /\ hd.now > hd.last_hit_ns
    /\ NormalizedAmp(hd, hd.amplitude) >= hd.params.trigger_high

\* C6: every emitted HitEvent, by the primary or by the fallback path, has
\* duration_ms >= ring_min_ms; and a call that released a trigger (normalized
\* amplitude <= trigger_low) before ring_min_ms had elapsed returned no event.
C6_MinimumDuration ==
    /\ [](\A k \in 1..Len(hd.events) :
            hd.events[k].event.duration_ns >= hd.params.ring_min_ms * NsPerMs)
    /\ [][(/\ hd.triggered
           /\ ~BelowMinAmp(hd', hd'.amplitude)
           /\ ~InDeadTime(hd, hd'.now)
           /\ NormalizedAmp(hd', hd'.amplitude) <= hd.params.trigger_low
           /\ hd'.now - hd.trigger_start_ns < hd.params.ring_min_ms * NsPerMs)
          => (hd'.returned = NoEvent /\ ~hd'.triggered /\ hd'.events = hd.events)]_vars

\* An event has been emitted by the fallback path, and a later trigger that
\* was released too early has been dropped.
C6_Witness ==
    /\ \E k \in 1..Len(hd.events) : hd.events[k].path = "fallback"
    /\ hd.discarded >= 1

\* C7: as long as every amplitude handed in is below min_amp, process_sample
\* returns no event and the detector is not triggered.
C7_BelowMinAmpSilent ==
    hd.peak_seen < hd.params.min_amp =>
        /\ ~hd.triggered
        /\ hd.returned = NoEvent
        /\ hd.events = <<>>

\* Past warmup, a sample below min_amp but high enough above the baseline to
\* trigger has been handed in.
C7_Witness ==
    /\ hd.n_samples >= 1
    /\ hd.peak_seen < hd.params.min_amp
    /\ hd.now >= hd.warmup_end_ns
    /\ NormalizedAmp(hd, hd.amplitude) >= hd.params.trigger_high

(***************************************************************************)
(*                Claims about the onset detector                          *)
(***************************************************************************)

WindowPeak(w) == MaxSeq([k \in 1..Len(w.samples) |-> w.samples[k].magnitude])

\* C8: EnhancedImpactDetector never emits an ImpactEvent for a window whose
\* largest magnitude is below the peak threshold; such a window is discarded
\* and the detector is back in its not-in-impact state.
C8_NoEventBelowPeakThreshold ==
    /\ \A k \in 1..Len(eid.windows) :
          WindowPeak(eid.windows[k]) < eid.threshold
              => eid.windows[k].returned = NoEvent
    /\ \A k \in 1..Len(eid.events) : eid.events[k].peak_magnitude >= eid.threshold
    /\ (/\ eid.windows # <<>>
        /\ eid.windows[Len(eid.windows)].samples[Len(eid.windows[Len(eid.windows)].samples)].timestamp
              = eid.now
        /\ WindowPeak(eid.windows[Len(eid.windows)]) < eid.threshold)
       => (~eid.in_impact /\ eid.current_impact_samples = <<>> /\ eid.returned = NoEvent)

\* A window long enough to be emitted, but with its peak below the threshold,
\* has just been closed.
C8_Witness ==
    /\ eid.windows # <<>>
    /\ LET w == eid.windows[Len(eid.windows)]
       IN  /\ w.samples[Len(w.samples)].timestamp = eid.now
           /\ Len(w.samples) >= eid.minimum_duration_samples
           /\ WindowPeak(w) < eid.threshold
           /\ WindowPeak(w) >= eid.onset_threshold
    /\ eid.events # <<>>
(***************************************************************************)
(*            Claims about the startup calibration of the bridge           *)
(***************************************************************************)

\* No vibration sample has reached the shot detector, the onset detector or
\* the correlator, and no impact or pair has been produced.
NothingDetected ==
    /\ sd = NoShotDetector
    /\ eid.sample_history = <<>>
    /\ ~eid.in_impact
    /\ fb.n_detect = 0
    /\ fb.impact_counter = 0
    /\ rtc.n_impacts = 0
    /\ rtc.pending_impacts = <<>>
    /\ rtc.appended = <<>>
    /\ rtc.correlated_pairs = <<>>

\* C9: while the startup calibration is collecting samples, and at any time
\* before calibration_complete is True, no vibration notification reaches the
\* shot detector, the onset detector or the correlator, and no shot, impact
\* or pair event is produced.
C9_NoDetectionBeforeCalibration ==
    (fb.collecting_calibration \/ ~fb.calibration_complete) => NothingDetected

\* Vibration notifications have arrived during the collection, and the timer
\* has reported a shot that the correlator has looked at.
C9_Witness ==
    /\ fb.collecting_calibration
    /\ ~fb.calibration_complete
    /\ Len(fb.calibration_samples) > 16
    /\ rtc.pending_shots # <<>>
    /\ rtc.last_pass.ran

\* C10: once the polling loop of perform_startup_calibration has woken past
\* its timeout with fewer than CALIBRATION_SAMPLES samples, calibration_complete
\* is never True and the detection handler never processes a sample, whatever
\* notifications arrive afterwards.
C10_TimeoutStaysUncalibrated ==
    fb.deadline_missed =>
        /\ ~fb.calibration_complete
        /\ fb.bt50_handler # "bt50"
        /\ fb.pc = "failed"
        /\ NothingDetected

\* After the timeout the notifications went on until the sample list was full.
C10_Witness ==
    /\ fb.deadline_missed
    /\ fb.pc = "failed"
    /\ Len(fb.calibration_samples) = CALIBRATION_SAMPLES
    /\ ~fb.collecting_calibration

\* C11: once the CALIBRATION_SAMPLES-th sample has been collected before the
\* calibration timeout elapsed, perform_startup_calibration, when it leaves
\* its polling loop, has computed the baseline and set calibration_complete,
\* whatever the interleaving of notifications and wake-ups of the loop.
C11_CollectedInTimeCalibrates ==
    (fb.collected_in_time /\ fb.pc # "polling") =>
        /\ fb.calibration_complete
        /\ fb.baseline_x # None /\ fb.baseline_y # None /\ fb.baseline_z # None

(***************************************************************************)
(*                   Claims about the ShotDetector                         *)
(***************************************************************************)

\* C12: a maximal run of consecutive over-threshold samples longer than
\* max_duration produces no ShotEvent, neither on a sample of the run nor on
\* the below-threshold sample that ends it.
C12_TooLongRunSilent ==
    /\ sd.run_len > 0 => sd.returned = NoEvent
    /\ sd.closed.len > sd.max_duration => sd.closed.event = NoEvent

\* C13: a maximal run of L over-threshold samples, min_duration <= L <=
\* max_duration, with no event accepted during min_interval before its first
\* sample, produces exactly one ShotEvent, on the below-threshold sample that
\* ends it, with duration_samples = L; a run shorter than min_duration
\* produces none.
C13_RunInRangeOneEvent ==
    /\ sd.run_len > 0 => sd.returned = NoEvent
    /\ (/\ sd.closed.len >= sd.min_duration
        /\ sd.closed.len <= sd.max_duration
        /\ sd.closed.clear)
       => /\ sd.closed.event # NoEvent
          /\ sd.closed.event.duration_samples = sd.closed.len
    /\ (sd.closed.len > 0 /\ sd.closed.len < sd.min_duration)
       => sd.closed.event = NoEvent

\* C14: of two events emitted one after the other, the first sample
\* accumulated for the second has a timestamp at least min_interval after
\* the timestamp at which the first was accepted.
C14_MinIntervalBetweenShots ==
    \A k \in 1..(Len(sd.emitted) - 1) :
        sd.emitted[k + 1].first_sample_time - sd.emitted[k].accepted_at
            >= sd.min_interval_ms

C14_Witness ==
    /\ Len(sd.emitted) >= 2
    /\ sd.emitted[2].first_sample_time - sd.emitted[1].accepted_at = sd.min_interval_ms

(***************************************************************************)
(*             Claims about the warmup of the HitDetector                  *)
(***************************************************************************)

\* C15: while the latest sample lies within warmup_ms of the creation of the
\* HitDetector, process_sample has only fed the baseline samples: it has
\* returned no event and the detector has never been triggered, whatever the
\* amplitudes.
C15_WarmupOnlyFeedsBaseline ==
    hd.now < hd.warmup_end_ns =>
        /\ hd.returned = NoEvent
        /\ hd.events = <<>>
        /\ ~hd.triggered
        /\ hd.trigger_start_ns = None
        /\ hd.last_hit_ns = None
        /\ hd.event_samples = <<>>
        /\ hd.baseline = hd.params.baseline_min
        /\ Len(hd.baseline_samples) = hd.n_samples

C15_Witness ==
    /\ hd.now < hd.warmup_end_ns
    /\ hd.n_samples >= 2
    /\ hd.amplitude >= hd.params.trigger_high
    /\ hd.baseline_samples[1] >= hd.params.trigger_high

(***************************************************************************)
(*                Claims about the MultiPlateDetector                      *)
(***************************************************************************)

\* C16: a process_sample call for one plate creates that plate's detector if
\* there is none and changes no other plate's detector (its triggered flag,
\* baseline, accumulated samples and last-hit time included);
\* get_detector_status for a plate without a detector returns the error
\* record and creates no detector.
C16_PlatesIndependent ==
    [][/\ mpd'.last_call.op = "process_sample" =>
            /\ mpd'.detectors[mpd'.last_call.plate_id] # NoDetector
            /\ \A p \in PlateIds \ {mpd'.last_call.plate_id} :
                   mpd'.detectors[p] = mpd.detectors[p]
       /\ (/\ mpd'.last_call.op = "get_detector_status"
           /\ mpd.detectors[mpd'.last_call.plate_id] = NoDetector) =>
            /\ mpd'.last_call.returned = [error |-> "Detector not found"]
            /\ mpd'.detectors = mpd.detectors
      ]_vars

C16_Witness ==
    /\ mpd.last_call.op = "process_sample"
    /\ mpd.last_call.plate_id = "P2"
    /\ mpd.detectors["P2"] # NoDetector
    /\ mpd.detectors["P1"] # NoDetector
    /\ mpd.detectors["P1"].triggered
    /\ ~mpd.detectors["P2"].triggered
    /\ Len(mpd.detectors["P2"].baseline_samples) = 1

(***************************************************************************)
(*                   Claims about the frame parsers                        *)
(***************************************************************************)

AmgParsed == par.fn = "parse_amg_timer_data" /\ par.done

\* C17: parse_amg_timer_data returns None, and no partially decoded frame,
\* for every input of fewer than 14 bytes, the empty input included.
C17_ShortInputRejected ==
    (AmgParsed /\ Len(par.data) < 14) => par.result = ParseNone

C17_Witness ==
    /\ AmgParsed
    /\ Len(par.data) = 13
    /\ par.result = ParseNone

\* C18: for a frame whose state byte is not 3, 5 or 8 the decoded shot_state
\* is an unknown variant, never ACTIVE, START or STOPPED.
C18_UnknownStateNotAliased ==
    (/\ AmgParsed
     /\ par.result # ParseNone
     /\ par.data[2] \notin {3, 5, 8})
    => par.result.shot_state \notin {"ACTIVE", "START", "STOPPED"}

\* C19: for every 14-byte frame type_id is byte 0, the shot number byte 2,
\* total shots byte 3, each time field (256 * hi + lo) hundredths of a second
\* from the byte pairs at offsets 4-11, and the round the big-endian 16-bit
\* value at offsets 12-13; the frame 01 03 05 00 01 2C 00 ... decodes to
\* ACTIVE, shot 5, 3.00 s.
C19_FrameFieldsDecoded ==
    (AmgParsed /\ Len(par.data) = 14) =>
        /\ par.result # ParseNone
        /\ par.result.type_id = par.data[1]
        /\ par.result.current_shot = par.data[3]
        /\ par.result.total_shots = par.data[4]
        /\ par.result.current_time = 256 * par.data[5] + par.data[6]
        /\ par.result.split_time = 256 * par.data[7] + par.data[8]
        /\ par.result.first_shot_time = 256 * par.data[9] + par.data[10]
        /\ par.result.second_shot_time = 256 * par.data[11] + par.data[12]
        /\ par.result.current_round = 256 * par.data[13] + par.data[14]
        /\ par.data = ExampleAmgFrame =>
              /\ par.result.shot_state = "ACTIVE"
              /\ par.result.current_shot = 5
              /\ par.result.current_time = 300

C19_Witness ==
    /\ AmgParsed
    /\ par.data = ExampleAmgFrame
    /\ par.result # ParseNone
    /\ par.result.current_time = 300

\* C20: a well-formed sub-frame carrying the signed 16-bit triple (x, y, z)
\* decodes to one sample whose raw triple is (x, y, z); k sub-frames back to
\* back decode to k samples, in order, at byte offsets 0, S, ..., (k-1)*S for
\* the sub-frame size S.
C20_Parse5561RoundTrip ==
    (par.fn = "parse_5561" /\ par.layout = "sensor" /\ par.done) =>
        /\ Len(par.result) = Len(par.readings)
        /\ \A j \in 1..Len(par.readings) :
               /\ par.result[j].raw = par.readings[j]
               /\ par.result[j].offset = (j - 1) * 32

C20_Witness ==
    /\ par.fn = "parse_5561" /\ par.layout = "sensor" /\ par.done
    /\ par.readings = <<RestReading, <<-1, 24917, 5>>, <<-32768, 32767, 0>>>>
    /\ Len(par.result) = 3
    /\ par.result[3].raw = <<-32768, 32767, 0>>
    /\ par.result[3].offset = 64

\* Sum of one axis over the samples of a result.
AxisSum(samples, a) == SumSeq([j \in 1..Len(samples) |-> samples[j].raw[a]])

\* C21: parse_5561 applied to k >= 1 frames built as the tests build them
\* (the marker followed at once by x, y, z) returns exactly k samples, each
\* with the encoded values; (500,500,500) followed by (-500,-500,-500) gives
\* two samples whose per-axis mean is 0.
C21_TestFramesDecoded ==
    (par.fn = "parse_5561" /\ par.layout = "test" /\ par.done) =>
        /\ Len(par.result) = Len(par.readings)
        /\ \A j \in 1..Len(par.readings) : par.result[j].raw = par.readings[j]
        /\ par.readings = <<<<500, 500, 500>>, <<-500, -500, -500>>>> =>
              \A a \in 1..3 : AxisSum(par.result, a) = 0

\* Position i (0-based) of the payload holds the marker.
MarkerAt(payload, i) ==
    i + 2 <= Len(payload) /\ payload[i + 1] = 85 /\ payload[i + 2] = 97

\* C22: for a payload of any length and content parse_5561 reads no position
\* outside the payload (so it does not raise); every sample it returns comes
\* from a marker with a full sub-frame of bytes from it on, the samples in
\* payload order and not overlapping, so a marker with fewer bytes after it
\* adds nothing; a payload without a marker gives the empty result.
C22_Parse5561InBounds ==
    (par.fn = "parse_5561" /\ par.done) =>
        /\ par.max_read <= Len(par.data)
        /\ \A j \in 1..Len(par.result) :
               /\ MarkerAt(par.data, par.result[j].offset)
               /\ par.result[j].offset + 32 <= Len(par.data)
               /\ j > 1 => par.result[j].offset >= par.result[j - 1].offset + 32
        /\ (\A i \in 0..Len(par.data) : ~MarkerAt(par.data, i)) => par.result = <<>>

C22_Witness ==
    /\ par.fn = "parse_5561" /\ par.layout = "any" /\ par.done
    /\ Len(par.data) = 60
    /\ MarkerAt(par.data, 32)
    /\ Len(par.result) = 1
    /\ par.result[1].offset = 0

(***************************************************************************)
(*                  Claims about the calibration file                      *)
(***************************************************************************)

\* C23: loading the calibration never raises because of the file: when the
\* file is absent or cannot be read as a calibration record (missing,
\* unreadable, malformed JSON, JSON of an unexpected shape), from_file returns
\* the built-in defaults.
C23_UnreadableFileGivesDefaults ==
    (par.fn = "from_file" /\ par.done
        /\ par.data.kind \in RaisingFileKinds \ {"directory"}) =>
        /\ ~par.result.raised
        /\ par.result.value = DefaultCalibration

\* C24: save_to_file followed by from_file gives a calibration equal to the
\* saved one in all six persisted fields.
C24_SaveLoadRoundTrip ==
    (par.fn = "save_to_file" /\ par.done) =>
        /\ ~par.result.raised
        /\ \A k \in CalibrationKeys : par.result.value[k] = par.readings[k]

(***************************************************************************)
(*             Claims about the passes of the correlator                   *)
(***************************************************************************)

Candidates(d) ==
    {i \in 1..Len(d.impacts) :
        /\ i \notin d.used_impacts
        /\ d.impacts[i].timestamp >= d.shot.timestamp
        /\ d.impacts[i].timestamp <=
               d.shot.timestamp + d.calibration.correlation_window_ms * TicksPerMs}

\* |observed delay - expected delay| of candidate i, in ticks.
Distance(d, i) ==
    Abs(d.impacts[i].timestamp - d.shot.timestamp
          - d.calibration.expected_delay_ms * TicksPerMs)

\* The acceptance criteria for the shot of a decision and its impact i, under
\* the calibration cal.
Acceptable(shot, impact, cal) ==
    LET delay_ms == (impact.timestamp - shot.timestamp) \div TicksPerMs
    IN  /\ impact.timestamp >= shot.timestamp
        /\ delay_ms <= cal.correlation_window_ms
        /\ impact.magnitude >= cal.minimum_magnitude
        /\ Abs(delay_ms - cal.expected_delay_ms) <= cal.delay_tolerance_ms

\* C26: when a pending shot has several unused pending impacts in its
\* window, the pass considers the one closest to the expected delay, the
\* earliest queued on a tie, and pairs the shot with it exactly when it meets
\* the acceptance criteria; the shot is never paired with a farther one.
C26_ClosestCandidateChosen ==
    \A k \in 1..Len(rtc.last_pass.decisions) :
        LET d == rtc.last_pass.decisions[k]
        IN  Cardinality(Candidates(d)) >= 2 =>
              /\ d.best_index \in Candidates(d)
              /\ \A i \in Candidates(d) :
                     \/ Distance(d, d.best_index) < Distance(d, i)
                     \/ Distance(d, d.best_index) = Distance(d, i) /\ d.best_index <= i
              /\ d.paired <=> Acceptable(d.shot, d.impacts[d.best_index], d.calibration)
              /\ d.paired =>
                     rtc.last_pass.new_pairs[
                         Cardinality({j \in 1..k : rtc.last_pass.decisions[j].paired})
                     ].impact = d.impacts[d.best_index]

\* A later-queued impact is the closer of two and is paired.
C26_Witness ==
    \E k \in 1..Len(rtc.last_pass.decisions) :
        LET d == rtc.last_pass.decisions[k]
        IN  /\ Cardinality(Candidates(d)) >= 2
            /\ d.best_index > 1
            /\ 1 \in Candidates(d)
            /\ Distance(d, d.best_index) < Distance(d, 1)
            /\ d.paired

\* The distance of the delay from shot to impact to the expected delay, in ticks.
ShotDistance(shot, impact, cal) ==
    Abs(impact.timestamp - shot.timestamp - cal.expected_delay_ms * TicksPerMs)

\* C27: an inserted impact that several pending shots have inside their
\* window and within tolerance is paired with the shot whose delay to it is
\* closest to the expected delay, not merely with the oldest shot that
\* accepts it: when the latest pass paired the impact inserted last, no other
\* shot of that pass accepts the impact at a smaller distance.
C27_ImpactGoesToClosestShot ==
    \A k \in 1..Len(rtc.last_pass.decisions) :
        LET d == rtc.last_pass.decisions[k]
            impact == d.impacts[d.best_index]
        IN  (d.paired /\ impact.id = rtc.n_impacts) =>
               \A j \in 1..Len(rtc.last_pass.decisions) :
                   LET other == rtc.last_pass.decisions[j].shot
                   IN  Acceptable(other, impact, d.calibration) =>
                          ShotDistance(d.shot, impact, d.calibration)
                              <= ShotDistance(other, impact, d.calibration)

\* A pending shot and a pending impact of c that together meet the acceptance
\* criteria under the calibration of c.
AcceptablePending(c) ==
    \E i \in 1..Len(c.pending_shots), j \in 1..Len(c.pending_impacts) :
        Acceptable(c.pending_shots[i], c.pending_impacts[j], c.calibration)

\* C28: when a _correlate_events pass completes, no pending shot and pending
\* impact remain that together meet the acceptance criteria under the
\* calibration in force at the end of the pass.
C28_NothingAcceptableLeft ==
    [][(rtc'.tasks < rtc.tasks /\ ~rtc'.last_pass.raised) => ~AcceptablePending(rtc')]_vars

\* The value the learning step computes from the old expected delay and the
\* delay history: int(old * (1 - learning_rate) + mean * learning_rate).
LearnedDelay(old, history, lr) ==
    (old * (lr.den - lr.num) * Len(history) + SumSeq(history) * lr.num)
        \div (lr.den * Len(history))

\* What one decision of a pass may do to expected_delay_ms.
LearningRule(d) ==
    LET old == d.calibration.expected_delay_ms
        new == d.calibration_after.expected_delay_ms
        history == d.recent_delays_after
        learned == LearnedDelay(old, history, d.calibration.learning_rate)
        learns == /\ d.paired
                  /\ Len(history) >= 3
                  /\ Abs(learned - old) > 5
    IN  /\ Len(history) <= 20
        /\ d.paired =>
              history = LastN(Append(d.recent_delays,
                                     (d.impacts[d.best_index].timestamp - d.shot.timestamp)
                                         \div TicksPerMs), 20)
        /\ ~d.paired => history = d.recent_delays
        /\ new = IF learns THEN learned ELSE old

PrunedTo(queue, ts, id, cal) ==
    /\ \A k \in 1..Len(queue) :
           queue[k].timestamp >= ts - cal.correlation_window_ms * TicksPerMs
    /\ queue # <<>>
    /\ queue[Len(queue)].id = id
    /\ queue[Len(queue)].timestamp = ts

\* C30: immediately after add_shot_event(ts) every pending shot has a
\* timestamp >= ts - correlation_window_ms, and immediately after an
\* add_impact_event(ts) that passes the magnitude filter every pending impact
\* has a timestamp >= ts - correlation_window_ms; the event just inserted is
\* retained.
C30_QueuesPrunedToNewest ==
    [][/\ rtc'.n_shots > rtc.n_shots =>
             PrunedTo(rtc'.pending_shots, rtc'.shot_clock, rtc'.n_shots, rtc'.calibration)
       /\ rtc'.n_impacts > rtc.n_impacts =>
             PrunedTo(rtc'.pending_impacts, rtc'.impact_clock, rtc'.n_impacts,
                      rtc'.calibration)]_vars

\* No pass has run, and of two shots and two impacts handed in only the
\* newest of each is pending: the older ones were pruned by the insertions.
C30_Witness ==
    /\ ~rtc.last_pass.ran
    /\ rtc.n_shots = 2 /\ Len(rtc.pending_shots) = 1
    /\ rtc.pending_shots[1].id = 2
    /\ rtc.n_impacts = 2 /\ Len(rtc.pending_impacts) = 1
    /\ rtc.pending_impacts[1].id = 2

(***************************************************************************)
(*                  Claims about the confidence of a pair                  *)
(***************************************************************************)

\* The deviation |delay - expected_delay_ms| of a _calculate_confidence call.
Deviation == Abs(par.data.delay_ms - par.data.calibration.expected_delay_ms)

\* C31: _calculate_confidence(delay) is 1 when the deviation
\* |delay - expected_delay_ms| is 0, falls linearly to 0.5 as the deviation
\* reaches delay_tolerance_ms (1 - deviation / (2 * tolerance)), is 0 whenever
\* the deviation is at least 2 * delay_tolerance_ms, and always lies in
\* [0, 1].  The tolerance is positive.
C31_ConfidenceShape ==
    (par.fn = "_calculate_confidence" /\ par.done) =>
        LET tolerance == par.data.calibration.delay_tolerance_ms
            c == par.result
        IN  /\ c.den > 0
            /\ 0 <= c.num /\ c.num <= c.den
            /\ Deviation = 0 => c.num = c.den
            /\ Deviation <= tolerance =>
                   c.num * 2 * tolerance = c.den * (2 * tolerance - Deviation)
            /\ Deviation = tolerance => 2 * c.num = c.den
            /\ Deviation >= 2 * tolerance => c.num = 0

\* A call with a deviation of more than twice the tolerance.
C31_Witness ==
    /\ par.fn = "_calculate_confidence" /\ par.done
    /\ Deviation > 2 * par.data.calibration.delay_tolerance_ms
    /\ par.result.num = 0

\* One shot and one impact have been handed in, in either order, and every
\* pass scheduled has run.
OneShotOneImpact == rtc.n_shots = 1 /\ rtc.n_impacts = 1 /\ rtc.tasks = 0

\* The delay from the only shot to the only impact, in ms as int() gives it.
OnlyDelay == (rtc.impact_clock - rtc.shot_clock) \div TicksPerMs

\* C32: one shot and one impact that meet the acceptance criteria, with
\* nothing else pending, give the same single pair (same delay_ms and
\* confidence) and leave both pending queues empty, whether the shot or the
\* impact is inserted first.
C32_InsertionOrderIrrelevant ==
    (/\ OneShotOneImpact
     /\ rtc.impact_clock >= rtc.shot_clock
     /\ OnlyDelay <= rtc.calibration.correlation_window_ms
     /\ Abs(OnlyDelay - rtc.calibration.expected_delay_ms)
            <= rtc.calibration.delay_tolerance_ms) =>
        /\ Len(rtc.appended) = 1
        /\ Len(rtc.correlated_pairs) = 1
        /\ rtc.correlated_pairs[1] = rtc.appended[1].pair
        /\ rtc.correlated_pairs[1].shot.id = 1
        /\ rtc.correlated_pairs[1].impact.id = 1
        /\ rtc.correlated_pairs[1].delay_ms = OnlyDelay
        /\ rtc.correlated_pairs[1].confidence =
               CalculateConfidence(rtc.calibration, OnlyDelay)
        /\ rtc.pending_shots = <<>>
        /\ rtc.pending_impacts = <<>>

\* The impact was inserted before the shot and the pair was made.
C32_Witness ==
    /\ OneShotOneImpact
    /\ rtc.first = "impact"
    /\ Len(rtc.correlated_pairs) = 1
    /\ rtc.pending_shots = <<>>
    /\ rtc.pending_impacts = <<>>

(***************************************************************************)
(*                  Claims about the TimingCorrelator                      *)
(***************************************************************************)

\* C33: in the TimingCorrelator, whatever the sequence of process_shot_event
\* and process_impact_event calls, no event appears in two different pairs;
\* an event matched in one direction is marked correlated and is never
\* matched again by either direction.
C33_CorrelatorMatchesAtMostOnce ==
    /\ \A a, b \in 1..Len(tc.registered) :
           a # b => /\ tc.registered[a].shot # tc.registered[b].shot
                    /\ tc.registered[a].impact # tc.registered[b].impact
    /\ \A a \in 1..Len(tc.registered) :
           /\ \A i \in 1..Len(tc.shot_events) :
                  tc.shot_events[i].id = tc.registered[a].shot =>
                      tc.shot_events[i].correlated
           /\ \A j \in 1..Len(tc.impact_events) :
                  tc.impact_events[j].id = tc.registered[a].impact =>
                      tc.impact_events[j].correlated

\* Pairs were made in both directions, and the last shot handed in found
\* only impacts that were already matched, at its expected delay.
C33_Witness ==
    /\ \E a, b \in 1..Len(tc.registered) :
           tc.registered[a].direction = "shot" /\ tc.registered[b].direction = "impact"
    /\ tc.shot_events # <<>>
    /\ ~tc.shot_events[Len(tc.shot_events)].correlated
    /\ \E j \in 1..Len(tc.impact_events) :
           /\ tc.impact_events[j].correlated
           /\ AboveHalf(PairOf(tc, Len(tc.shot_events), j, "shot").confidence)
           /\ tc.impact_events[j].timestamp >= tc.shot_events[Len(tc.shot_events)].timestamp

(***************************************************************************)
(*             Claims about the HitDetector state machine                  *)
(***************************************************************************)

\* The step handed a sample to a triggered detector, the sample's normalized
\* amplitude (over the baseline the sample itself updated) is at most
\* trigger_low, and the trigger has lasted at least ring_min_ms.
LowSampleAfterRing ==
    /\ hd.triggered
    /\ hd'.n_samples = hd.n_samples + 1
    /\ Max2(hd'.amplitude - hd'.baseline, 0) <= hd.params.trigger_low
    /\ hd'.now - hd.trigger_start_ns >= hd.params.ring_min_ms * NsPerMs

\* C34 as stated: whenever a triggered HitDetector processes a sample whose
\* normalized amplitude is at most trigger_low and whose timestamp is at
\* least ring_min_ms after the trigger start, it emits a HitEvent on that
\* sample and returns to not-triggered.
C34_Original ==
    [][LowSampleAfterRing => (hd'.returned # NoEvent /\ ~hd'.triggered)]_vars

\* C34, amended: the same, for a sample whose amplitude is at least min_amp
\* (a smaller sample is dropped before the state machine and leaves the
\* detector triggered).
C34_ReleaseOnLowSample ==
    [][(LowSampleAfterRing /\ hd'.amplitude >= hd.params.min_amp)
          => (hd'.returned # NoEvent /\ ~hd'.triggered)]_vars

\* A sample of at least min_amp and at most trigger_low over the baseline has
\* just released the trigger by the primary path.
C34_Witness ==
    /\ hd.returned # NoEvent
    /\ ~hd.triggered
    /\ hd.amplitude >= hd.params.min_amp
    /\ Max2(hd.amplitude - hd.baseline, 0) <= hd.params.trigger_low
    /\ hd.events # <<>>
    /\ hd.events[Len(hd.events)].path = "primary"
    /\ hd.events[Len(hd.events)].release_ns = hd.now

\* The step handed a sample of at least min_amp to a detector that was not
\* triggered, after the warmup and outside the dead time of the last hit.
SampleWhileIdle ==
    /\ ~hd.triggered
    /\ hd'.n_samples = hd.n_samples + 1
    /\ hd'.now >= hd.warmup_end_ns
    /\ ~InDeadTime(hd, hd'.now)
    /\ hd'.amplitude >= hd.params.min_amp

\* C35: a not-triggered HitDetector past warmup and dead time becomes
\* triggered on a sample of at least min_amp exactly when the sample's
\* normalized amplitude is at least trigger_high (so a sample between
\* trigger_low and trigger_high leaves it not triggered), and the call that
\* triggers returns no event.
C35_TriggerOnlyAtHigh ==
    [][SampleWhileIdle =>
          /\ hd'.triggered <=>
                 Max2(hd'.amplitude - hd'.baseline, 0) >= hd.params.trigger_high
          /\ hd'.returned = NoEvent]_vars

\* After a sample between the two levels left the detector idle, the next
\* sample has just triggered it and returned nothing.
C35_Witness ==
    /\ hd.triggered
    /\ hd.trigger_start_ns = hd.now
    /\ hd.returned = NoEvent
    /\ Max2(hd.amplitude - hd.baseline, 0) >= hd.params.trigger_high
    /\ Len(hd.baseline_samples) >= 2
    /\ hd.last_hit_ns = None
    /\ \A step \in StepsNs : hd.now - step >= hd.warmup_end_ns
    /\ LET previous == hd.baseline_samples[Len(hd.baseline_samples) - 1]
       IN  /\ previous >= hd.params.min_amp
           /\ Max2(previous - hd.baseline, 0) > hd.params.trigger_low
           /\ Max2(previous - hd.baseline, 0) < hd.params.trigger_high

\* The step handed a sample to a triggered detector, and the sample's
\* normalized amplitude (over the baseline it updated) is above trigger_low.
HighSampleWhileTriggered ==
    /\ hd.triggered
    /\ hd'.n_samples = hd.n_samples + 1
    /\ Max2(hd'.amplitude - hd'.baseline, 0) > hd.params.trigger_low

\* The decay conditions, on the window with the sample of the step in it.
DecayConditions ==
    LET window == Append(hd.event_samples, <<hd'.now, hd'.amplitude>>)
        peak == MaxSeq([k \in 1..Len(window) |-> window[k][2]])
        previous == window[Len(window) - 1][2]
    IN  /\ hd'.now - hd.trigger_start_ns >= hd.params.ring_min_ms * NsPerMs
        /\ Len(window) >= 3
        /\ \/ hd'.amplitude * 100 <= peak * 60
           \/ hd'.amplitude * 100 <= previous * 55

\* What the sample of the step does according to the fallback rule.
FallbackOutcome ==
    IF DecayConditions
    THEN /\ hd'.returned # NoEvent
         /\ ~hd'.triggered
    ELSE /\ hd'.returned = NoEvent
         /\ hd'.triggered
         /\ hd'.event_samples = Append(hd.event_samples, <<hd'.now, hd'.amplitude>>)

PostWarmupAmplitudes ==
    SubSeq(hd.baseline_samples, hd.n_warmup + 1, Len(hd.baseline_samples))

\* C37: after every post-warmup sample the baseline equals the larger of
\* baseline_min and the minimum of the most recent (at most 100) post-warmup
\* amplitudes; warmup amplitudes do not enter it, and it is never below
\* baseline_min.
C37_BaselineIsFloorOfPostWarmup ==
    (hd.n_samples > hd.n_warmup /\ hd.n_samples < BaselineMaxLen) =>
        /\ hd.baseline = Max2(MinSeq(LastN(PostWarmupAmplitudes, BaselineMaxLen)),
                              hd.params.baseline_min)
        /\ hd.baseline >= hd.params.baseline_min

(***************************************************************************)
(*                 Claims about the window of an impact                    *)
(***************************************************************************)

\* The number of samples of a window at or above the onset threshold.
RECURSIVE AtOrAboveOnset(_)
AtOrAboveOnset(samples) ==
    IF samples = <<>> THEN 0
    ELSE (IF Head(samples).magnitude >= eid.onset_threshold THEN 1 ELSE 0)
         + AtOrAboveOnset(Tail(samples))

\* C38: the EnhancedImpactDetector discards a window that accumulated fewer
\* than minimum_duration_samples samples at or above onset_threshold before
\* the sample that closes it: the window of every event returned holds at
\* least minimum_duration_samples samples of magnitude >= onset_threshold,
\* the first of which is the reported onset.
C38_EventWindowLongEnough ==
    \A w \in 1..Len(eid.windows) :
        eid.windows[w].returned # NoEvent =>
            /\ AtOrAboveOnset(eid.windows[w].samples) >= eid.minimum_duration_samples
            /\ eid.windows[w].samples[1].magnitude >= eid.onset_threshold
            /\ eid.windows[w].returned.onset_timestamp = eid.windows[w].samples[1].timestamp
            /\ eid.windows[w].returned.onset_magnitude = eid.windows[w].samples[1].magnitude

(***************************************************************************)
(*                 Claims about the bridge's handlers                      *)
(***************************************************************************)

\* C39: the timestamp FixedBridge gives the correlator for a shot frame is
\* start_beep_time + 10 ms * (the u16 at bytes 4-5) when a START frame was
\* received and no STOP frame processed since, and the frame's receipt time
\* otherwise; processing a STOP frame clears start_beep_time and resets the
\* shot and impact counters.
C39_ShotTimestampFollowsString ==
    LET l == fb.last_amg
    IN  /\ (l.kind = "shot" /\ l.data.len >= 14) =>
               l.given = IF l.string_open
                         THEN l.start_beep_time + 10 * l.data.time_cs
                         ELSE l.receipt
        /\ l.kind = "stop" =>
               /\ l.left.start_beep_time = None
               /\ l.left.shot_counter = 0
               /\ l.left.impact_counter = 0

\* The corrected magnitude of a raw sample under the bridge's baseline.
CorrectedMagnitude(raw) ==
    Magnitude(raw[1] - fb.baseline_x, raw[2] - fb.baseline_y, raw[3] - fb.baseline_z)

\* C40: once the calibration is complete, every sample decoded from a
\* vibration notification is baseline-corrected and passed to the detectors
\* exactly once, in sub-frame order: a notification of k sub-frames advances
\* the spike classifier and the onset detector by k samples.
C40_EverySampleReachesDetectors ==
    [][(fb.calibration_complete /\ fb'.n_detect = fb.n_detect + 1) =>
          LET decoded == fb'.last_decoded
              k == Len(decoded)
              seen == Len(eid.sample_history)
          IN  /\ sd'.sample_count = sd.sample_count + k
              /\ Len(eid'.sample_history) = seen + k
              /\ \A j \in 1..k :
                     eid'.sample_history[seen + j].magnitude = CorrectedMagnitude(decoded[j])]_vars

====
